---------------------------- MODULE Spec2Model ----------------------------
(***************************************************************************)
(* pg_background: a controller session (one PostgreSQL backend) launches   *)
(* background workers, each bound to a dynamic shared memory segment that  *)
(* holds the fixed data (cookie, cancel flag, progress) and one shm_mq     *)
(* response queue.  The controller keeps a session-local hash table of     *)
(* pg_background_worker_info keyed by worker pid.                          *)
(*                                                                         *)
(* The model follows src/pg_background.c (POSIX build, i.e. the code       *)
(* outside #ifdef WIN32).  The controller is single threaded: while it is  *)
(* inside a blocking call (launch, result, cancel with grace, wait) only   *)
(* worker processes take steps.  The PostgreSQL facilities the code calls  *)
(* (shm_mq, dsm, bgworker handles, resource owners) are modelled at the    *)
(* call sites by what they return to this code.                            *)
(***************************************************************************)
EXTENDS Integers, Sequences, FiniteSets, TLC

(***************************************************************************)
(* Bounds of the model                                                     *)
(***************************************************************************)
\* tasks launched during one session (Spec)
MaxTasks == 1
\* tasks launched one after the other during one session (SpecSeq)
MaxSeqTasks == 2
\* process ids the OS hands out (and reuses) for workers: 1..MaxPid
MaxPid == 2
\* frames the response queue holds before a send blocks
MaxCap == 2
\* background worker slots of the server (the max_worker_processes setting)
max_worker_processes == 1
\* pg_background_progress calls one request makes (SpecProgress)
MaxReports == 2

(***************************************************************************)
(* Program constants                                                       *)
(***************************************************************************)
PGBG_QUEUE_SIZE_MAX == 268435456
pgbg_default_queue_size == 65536
pgbg_max_workers == 16
\* extern const Size of storage/shm_mq.h, used by launch_internal
shm_mq_minimum_size == 56
PGBG_GRACE_MS_MAX == 3600000
PGBG_TIMEOUT_MS_MAX == 86400000
\* the lowest value pg_background.max_workers accepts
MinMaxWorkers == 1

(***************************************************************************)
(* 64-bit unsigned values (cookies) are sets of bit positions 0..63, so    *)
(* that xor and the shifts of pg_background_make_cookie keep their width.  *)
(***************************************************************************)
Bits64 == 0..63
Zero64 == {}
One64 == {0}
\* 0x9e3779b97f4a7c15
GoldenCookie ==
    {0, 2, 4, 10, 11, 12, 13, 14, 17, 19, 22, 24, 25, 26, 27, 28, 29, 30, 32,
     35, 36, 37, 39, 40, 43, 44, 45, 46, 48, 49, 50, 52, 53, 57, 58, 59, 60, 63}
Xor64(a, b) == (a \ b) \cup (b \ a)
Shl64(a, k) == {i + k : i \in {j \in a : j + k \in Bits64}}
Shr64(a, k) == {i - k : i \in {j \in a : j >= k}}

\* what pg_strong_random can hand back: ok = FALSE is its failure
RandomOutcomes ==
    {[ok |-> TRUE, val |-> Zero64], [ok |-> TRUE, val |-> One64],
     [ok |-> FALSE, val |-> Zero64]}
\* (GetCurrentTimestamp(), MyProcPid, MyProc) read by the fallback
FallbackInputs ==
    {[t |-> Zero64, pid |-> {3}, proc |-> {3}],
     [t |-> {13}, pid |-> {5}, proc |-> {5, 30}]}

\* the time-based fallback expression of pg_background_make_cookie
FallbackCookie(f) ==
    Xor64(Xor64(Xor64(Shl64(f.t, 17), Shr64(f.t, 13)), f.pid), f.proc)

NoZeroGuardCookie(r, f) ==
    IF r.ok THEN r.val ELSE FallbackCookie(f)

pg_background_make_cookie(r, f) ==
    LET cookie == IF r.ok THEN r.val ELSE FallbackCookie(f)
    IN  IF cookie = Zero64 THEN GoldenCookie ELSE cookie

\* every cookie a caller may present
CookieValues == {Zero64, One64, GoldenCookie}

(***************************************************************************)
(* Protocol frames the worker puts on the response queue                   *)
(***************************************************************************)
Frame(tag, n, v) == [tag |-> tag, n |-> n, v |-> v]
FrameT(n) == Frame("T", n, "")
FrameD(n, v) == Frame("D", n, v)
FrameC(v) == Frame("C", 0, v)
FrameE(v) == Frame("E", 0, v)
FrameN(v) == Frame("N", 0, v)
FrameZ == Frame("Z", 0, "")

\* the request '' (sql_len = 0): pg_parse_query returns no statement and the
\* task runner emits nothing
EmptyRequest == <<>>

\* what the task runner (execute_sql_string) emits for the request; an "E"
\* frame is the error report of a failed command and ends the worker.
Scripts ==
    {EmptyRequest,
     <<FrameT(1), FrameD(1, "a"), FrameD(1, "b"), FrameC("SELECT 2")>>,
     <<FrameC("UPDATE 3")>>,
     <<FrameC("UPDATE 3"), FrameC("UPDATE 1")>>,
     <<FrameT(1), FrameD(1, "a"), FrameE("division by zero")>>}
\* frame sequences no sound worker sends, which result has to refuse
DecodeScripts ==
    {<<FrameD(1, "a"), FrameT(1)>>,
     <<FrameT(1), FrameD(1, "a"), FrameD(2, "b")>>,
     <<FrameT(2), FrameD(1, "a")>>}
\* requests that raise a notice, fail, or do neither (SpecStats)
StatsScripts ==
    {<<FrameN("table is empty"), FrameC("UPDATE 3")>>,
     <<FrameC("UPDATE 3")>>,
     <<FrameE("division by zero")>>}
\* the requests of SpecSeq
SeqScripts == {<<FrameC("UPDATE 3"), FrameC("UPDATE 1")>>}

\* queue_size arguments tried by the callers
QueueSizes ==
    {-1, 0, shm_mq_minimum_size - 1, pgbg_default_queue_size,
     PGBG_QUEUE_SIZE_MAX + 1}

Pids == 1..MaxPid
\* what an uninitialized pid_t may hold
GarbagePids == 0..MaxPid

Users == {"alice", "bob"}
\* has_privs_of_role(member, role)
has_privs_of_role(member, role) == member = role \/ member = "alice"

VARIABLES
    ntasks,         \* tasks created so far; task ids are 1..ntasks
    task,           \* per task: the launch arguments (never change)
    worker,         \* per task: the worker process
    seg,            \* per task: the DSM segment (fixed data and queue)
    worker_hash,    \* the session hash table: [live, tab]
    session_stats,  \* pgbg_stats
    ctl,            \* the call the controller is blocked in
    stream,         \* per task: pg_background_result_state of an open SRF
    hist,           \* per task: history (frames sent and decoded, streams
                    \* opened, how the stream ended, the (pid, cookie)
                    \* the launch returned, what an operation on the task
                    \* accessed after its own dsm_detach)
    curUser,        \* GetUserIdAndSecContext
    max_workers,    \* the pg_background.max_workers setting of the session
    list,           \* pg_background_list_state of an open list_v2 SRF, and
                    \* the row its last call returned
    progress        \* the locals of a get_progress_v2 call under way

vars == <<ntasks, task, worker, seg, worker_hash, session_stats, ctl, stream,
          hist, curUser, max_workers, list, progress>>

Tasks == 1..ntasks


(***************************************************************************)
(* Values                                                                  *)
(***************************************************************************)
\* (errcode, errmsg) of the ereport calls, with the error kind they stand for
ErrNotAttached ==
    [kind |-> "NotFound", code |-> "UNDEFINED_OBJECT",
     msg |-> "PID is not attached to this session"]
ErrCookieResult ==
    [kind |-> "NotFound", code |-> "UNDEFINED_OBJECT",
     msg |-> "PID is not attached to this session (cookie mismatch)"]
ErrCookieMismatch ==
    [kind |-> "CookieMismatch", code |-> "OBJECT_NOT_IN_PREREQUISITE_STATE",
     msg |-> "cookie mismatch for PID"]
ErrPermission ==
    [kind |-> "PermissionDenied", code |-> "INSUFFICIENT_PRIVILEGE",
     msg |-> "permission denied for background worker with PID"]
ErrDisabled ==
    [kind |-> "FeatureDisabled", code |-> "FEATURE_NOT_SUPPORTED",
     msg |-> "results are disabled for PID (submitted via submit_v2)"]
ErrConsumed ==
    [kind |-> "AlreadyConsumed", code |-> "UNDEFINED_OBJECT",
     msg |-> "results for PID have already been consumed"]
ErrConnectionLost ==
    [kind |-> "ConnectionLost", code |-> "CONNECTION_FAILURE",
     msg |-> "lost connection to worker process with PID"]
Passed == [kind |-> "ok", code |-> "", msg |-> ""]
\* PG_RETURN_NULL() of get_progress_v2
ReturnsNull == [kind |-> "null", code |-> "", msg |-> ""]

\* a pointer that is NULL
NULL == [null |-> TRUE]
Idle == [op |-> "idle", t |-> 0, pid |-> 0, arg |-> 0]
NoStream ==
    [open |-> FALSE, natts |-> 0, has_row_description |-> FALSE,
     command_tags |-> <<>>, complete |-> FALSE]
NoHist ==
    [sent |-> <<>>, decoded |-> <<>>, opened |-> 0, outcome |-> "none",
     handle |-> NULL, late |-> "none"]
\* no cleanup callback registered on the segment
NoCallback == -1

Live(t) == worker[t].pc \in {"init", "attached", "running", "done", "fatal"}
LivePids == {worker[t].pid : t \in {u \in Tasks : Live(u)}}

(***************************************************************************)
(* Init: a fresh session, nothing launched                                 *)
(***************************************************************************)
\* no list_v2 enumeration is open
NoList == [open |-> FALSE, pids |-> <<>>, row |-> NULL]

\* no get_progress_v2 call is under way
NoProgress == [pct |-> -1, msg |-> <<>>]
\* the bytes of progress_msg the model keeps; a byte is named by the report
\* that stored it, 0 for the NUL launch_internal stores
MsgCells == {1, 2}
NoMessage == [i \in MsgCells |-> 0]

\* settings: the values pg_background.max_workers may have been set to
InitWith(settings) ==
    /\ ntasks = 0
    /\ task = <<>>
    /\ worker = <<>>
    /\ seg = <<>>
    /\ worker_hash = [live |-> FALSE, tab |-> <<>>]
    /\ session_stats =
         [workers_launched |-> 0, workers_completed |-> 0,
          workers_failed |-> 0, workers_canceled |-> 0]
    /\ ctl = Idle
    /\ stream = <<>>
    /\ hist = <<>>
    /\ curUser = "alice"
    /\ max_workers \in settings
    /\ list = NoList
    /\ progress = NoProgress

\* the setting is left at its default
Init == InitWith({pgbg_max_workers})
\* the setting is at its default or at its lowest
InitSeq == InitWith({MinMaxWorkers, pgbg_max_workers})

(***************************************************************************)
(* The worker process: pg_background_worker_main                           *)
(***************************************************************************)
\* the worker's end of the queue goes away when the process exits
WorkerExits(t) ==
    /\ worker' = [worker EXCEPT ![t].pc = "exited", ![t].die = FALSE]

\* what a finished send leaves in the queue: the frame is enqueued while the
\* controller is attached as receiver and dropped once it has detached
Enqueue(s, f) ==
    IF s.attached THEN [s EXCEPT !.q = Append(@, f)] ELSE s
CanSend(s) == ~s.attached \/ Len(s.q) < s.cap
Sent(h, s, f) ==
    IF s.attached THEN [h EXCEPT !.sent = Append(@, f)] ELSE h

\* pids are named in the order of their first use
UsedPids == {worker[t].pid : t \in Tasks} \ {0}

\* the postmaster forks the registered worker; the OS picks a free pid, a
\* fresh one or one a dead worker had
WorkerStart(t, p) ==
    /\ worker[t].pc = "registered"
    /\ p \notin LivePids
    /\ p \in UsedPids \cup {Cardinality(UsedPids) + 1}
    /\ worker' = [worker EXCEPT ![t].pc = "init", ![t].pid = p]
    /\ UNCHANGED <<ntasks, task, seg, worker_hash, session_stats, ctl, stream,
                   hist, curUser, max_workers, list, progress>>

\* dsm_attach / shm_toc_attach / lookup fails: ERROR before the queue is
\* attached, the process exits
WorkerFailStartup(t) ==
    /\ worker[t].pc = "init"
    /\ WorkerExits(t)
    /\ UNCHANGED <<ntasks, task, seg, worker_hash, session_stats, ctl, stream,
                   hist, curUser, max_workers, list, progress>>

\* shm_mq_set_sender, shm_mq_attach, pq_redirect_to_shm_mq
WorkerAttach(t) ==
    /\ worker[t].pc = "init"
    /\ worker' = [worker EXCEPT ![t].pc = "attached"]
    /\ seg' = [seg EXCEPT ![t].sender = "attached"]
    /\ UNCHANGED <<ntasks, task, worker_hash, session_stats, ctl, stream,
                   hist, curUser, max_workers, list, progress>>

\* faulty variant: the worker starts the request without looking at the flag
WorkerBeginNoCheck(t) ==
    /\ worker[t].pc = "attached"
    /\ worker' = [worker EXCEPT ![t].pc = "running", ![t].ip = 1]
    /\ UNCHANGED <<ntasks, task, seg, worker_hash, session_stats, ctl, stream,
                   hist, curUser, max_workers, list, progress>>

\* connection set-up, GUC restore, then the pre-execution cancel check
WorkerBegin(t) ==
    /\ worker[t].pc = "attached"
    /\ IF seg[t].cancel_requested # 0
       THEN /\ WorkerExits(t)
            /\ seg' = [seg EXCEPT ![t].sender = "detached"]
       ELSE /\ worker' = [worker EXCEPT ![t].pc = "running", ![t].ip = 1]
            /\ seg' = seg
    /\ UNCHANGED <<ntasks, task, worker_hash, session_stats, ctl, stream,
                   hist, curUser, max_workers, list, progress>>

\* execute_sql_string: the runner emits its next frame (blocking while the
\* queue is full); an error report ends the process
WorkerSend(t) ==
    /\ worker[t].pc = "running"
    /\ worker[t].ip <= Len(task[t].script)
    /\ CanSend(seg[t])
    /\ LET f == task[t].script[worker[t].ip]
       IN  /\ hist' = [hist EXCEPT ![t] = Sent(@, seg[t], f)]
           /\ IF f.tag = "E"
              THEN /\ WorkerExits(t)
                   /\ seg' = [seg EXCEPT ![t] =
                                [Enqueue(@, f) EXCEPT !.sender = "detached"]]
              ELSE /\ worker' = [worker EXCEPT ![t].ip = @ + 1]
                   /\ seg' = [seg EXCEPT ![t] = Enqueue(@, f)]
    /\ UNCHANGED <<ntasks, task, worker_hash, session_stats, ctl, stream,
                   curUser, max_workers, list, progress>>

\* ReadyForQuery(DestRemote) after the last command
WorkerReady(t) ==
    /\ worker[t].pc = "running"
    /\ worker[t].ip = Len(task[t].script) + 1
    /\ CanSend(seg[t])
    /\ worker' = [worker EXCEPT ![t].pc = "done"]
    /\ seg' = [seg EXCEPT ![t] = Enqueue(@, FrameZ)]
    /\ hist' = [hist EXCEPT ![t] = Sent(@, seg[t], FrameZ)]
    /\ UNCHANGED <<ntasks, task, worker_hash, session_stats, ctl, stream,
                   curUser, max_workers, list, progress>>

\* pg_background_worker_main returns: proc_exit detaches the queue
WorkerExit(t) ==
    /\ worker[t].pc = "done"
    /\ WorkerExits(t)
    /\ seg' = [seg EXCEPT ![t].sender = "detached"]
    /\ UNCHANGED <<ntasks, task, worker_hash, session_stats, ctl, stream,
                   hist, curUser, max_workers, list, progress>>

FatalFrame == FrameE("terminating background worker")

\* handle_sigterm has set ProcDiePending; the next CHECK_FOR_INTERRUPTS
\* raises FATAL, whose report goes to the queue.  With the queue full the
\* worker either was inside a blocked send (the nested report detaches the
\* queue and the process exits) or was not (it blocks sending the report).
WorkerDie(t, insend) ==
    /\ worker[t].pc \in {"attached", "running"}
    /\ worker[t].die
    /\ IF CanSend(seg[t])
       THEN /\ ~insend
            /\ WorkerExits(t)
            /\ seg' = [seg EXCEPT ![t] =
                         [Enqueue(@, FatalFrame) EXCEPT !.sender = "detached"]]
            /\ hist' = [hist EXCEPT ![t] = Sent(@, seg[t], FatalFrame)]
       ELSE /\ insend => worker[t].pc = "running"
            /\ IF insend
               THEN /\ WorkerExits(t)
                    /\ seg' = [seg EXCEPT ![t].sender = "detached"]
               ELSE /\ worker' = [worker EXCEPT ![t].pc = "fatal",
                                                ![t].die = FALSE]
                    /\ seg' = seg
            /\ hist' = hist
    /\ UNCHANGED <<ntasks, task, worker_hash, session_stats, ctl, stream,
                   curUser, max_workers, list, progress>>

\* the blocked FATAL report gets through (room, or the receiver is gone), or
\* another SIGTERM interrupts it; either way the process exits
WorkerFatalSend(t) ==
    /\ worker[t].pc = "fatal"
    /\ CanSend(seg[t]) \/ worker[t].die
    /\ WorkerExits(t)
    /\ IF CanSend(seg[t])
       THEN /\ seg' = [seg EXCEPT ![t] =
                         [Enqueue(@, FatalFrame) EXCEPT !.sender = "detached"]]
            /\ hist' = [hist EXCEPT ![t] = Sent(@, seg[t], FatalFrame)]
       ELSE /\ seg' = [seg EXCEPT ![t].sender = "detached"]
            /\ hist' = hist
    /\ UNCHANGED <<ntasks, task, worker_hash, session_stats, ctl, stream,
                   curUser, max_workers, list, progress>>


(***************************************************************************)
(* The registry: worker_hash and its cleanup callback                      *)
(***************************************************************************)
hash_get_num_entries(H) == Cardinality(DOMAIN H.tab)

find_worker_info(H, pid) ==
    IF H.live /\ pid \in DOMAIN H.tab THEN H.tab[pid] ELSE NULL

\* faulty variant: the removal empties the table
HashRemoveAll(tab, pid) == <<>>

\* HASH_REMOVE
HashRemove(tab, pid) == [p \in DOMAIN tab \ {pid} |-> tab[p]]
\* HASH_ENTER followed by the field assignments of save_worker_info
HashEnter(tab, pid, info) ==
    [p \in DOMAIN tab \cup {pid} |-> IF p = pid THEN info ELSE tab[p]]

\* faulty variant: the removal of a canceled task is not counted
CountOutcomeNotCanceled(S, info) ==
    IF info.canceled
    THEN S
    ELSE IF info.last_error # ""
         THEN [S EXCEPT !.workers_failed = @ + 1]
         ELSE [S EXCEPT !.workers_completed = @ + 1]

\* the outcome counters of cleanup_worker_info
CountOutcome(S, info) ==
    IF info.canceled
    THEN [S EXCEPT !.workers_canceled = @ + 1]
    ELSE IF info.last_error # ""
         THEN [S EXCEPT !.workers_failed = @ + 1]
         ELSE [S EXCEPT !.workers_completed = @ + 1]

\* faulty variant: the callback counts the outcome and leaves the entry
cleanup_worker_info_keeps(H, S, pid) ==
    IF ~H.live
    THEN [hash |-> H, stats |-> S]
    ELSE [hash |-> H,
          stats |-> IF pid \in DOMAIN H.tab
                    THEN CountOutcome(S, H.tab[pid]) ELSE S]

\* cleanup_worker_info(seg, pid): the new [hash, stats]
cleanup_worker_info(H, S, pid) ==
    IF ~H.live
    THEN [hash |-> H, stats |-> S]
    ELSE LET found == pid \in DOMAIN H.tab
             S1 == IF found THEN CountOutcome(S, H.tab[pid]) ELSE S
             tab1 == HashRemove(H.tab, pid)
         IN  IF DOMAIN tab1 = {}
             THEN [hash |-> [live |-> FALSE, tab |-> <<>>], stats |-> S1]
             ELSE [hash |-> [live |-> TRUE, tab |-> tab1], stats |-> S1]

\* faulty variant: the segment is detached with the cancel flag raised
DetachedSegCancels(s) ==
    [s EXCEPT !.attached = FALSE, !.q = <<>>, !.cb_pid = NoCallback,
              !.cancel_requested = 1]

\* dsm_detach(seg) in the controller: the segment's on_dsm_detach callback
\* runs and the controller's end of the queue is gone
DetachedSeg(s) ==
    [s EXCEPT !.attached = FALSE, !.q = <<>>, !.cb_pid = NoCallback]
AfterDetach(H, S, s) ==
    IF s.attached /\ s.cb_pid # NoCallback
    THEN cleanup_worker_info(H, S, s.cb_pid)
    ELSE [hash |-> H, stats |-> S]

\* where "info->seg = NULL" lands when it follows dsm_detach(info->seg): H is
\* the registry the cleanup callback left.  A removed entry is an element on
\* the table's free list; a destroyed table is memory given back.
LateStore(H, pid) ==
    IF ~H.live THEN "freed memory"
    ELSE IF pid \in DOMAIN H.tab THEN "entry"
    ELSE "free element"

Crashed == [Idle EXCEPT !.op = "crashed"]

\* how a call goes on after such a store: a store into memory given back
\* may go unnoticed or bring the backend down
AfterLateStore(late) ==
    IF late = "freed memory" THEN {Idle, Crashed} ELSE {Idle}

\* faulty variant: every caller is let through
RightsUnchecked(info) == TRUE

check_rights(info) == has_privs_of_role(curUser, info.current_user_id)

(***************************************************************************)
(* launch, launch_v2, submit_v2 (launch_internal)                          *)
(***************************************************************************)
LaunchApis == {"launch", "launch_v2", "submit_v2"}

EffectiveQueueSize(queue_size) ==
    IF queue_size <= 0 THEN pgbg_default_queue_size ELSE queue_size

\* faulty variant: no upper limit on the queue size
LaunchCheckNoCeiling(queue_size) ==
    LET qs == EffectiveQueueSize(queue_size)
    IN  IF qs < shm_mq_minimum_size
        THEN "InvalidArgument"
        ELSE IF worker_hash.live
                /\ hash_get_num_entries(worker_hash) >= max_workers
             THEN "ResourceExhausted"
             ELSE "ok"

\* faulty variant: the number of entries is not looked at
LaunchCheckNoAdmission(queue_size) ==
    LET qs == EffectiveQueueSize(queue_size)
    IN  IF qs < shm_mq_minimum_size \/ qs > PGBG_QUEUE_SIZE_MAX
        THEN "InvalidArgument"
        ELSE "ok"

\* the argument and admission checks at the head of launch_internal
LaunchCheck(queue_size) ==
    LET qs == EffectiveQueueSize(queue_size)
    IN  IF qs < shm_mq_minimum_size \/ qs > PGBG_QUEUE_SIZE_MAX
        THEN "InvalidArgument"
        ELSE IF worker_hash.live
                /\ hash_get_num_entries(worker_hash) >= max_workers
             THEN "ResourceExhausted"
             ELSE "ok"

\* the cookie handed to launch_internal
LaunchCookie(api, r, f) ==
    IF api = "launch" THEN Zero64 ELSE pg_background_make_cookie(r, f)

\* faulty variant: the worker is taken as registered although no slot is free
CanRegisterAlways == TRUE

\* RegisterDynamicBackgroundWorker: a free worker slot is needed
CanRegister ==
    Cardinality({t \in Tasks : worker[t].pc # "exited"}) < max_worker_processes

\* checks passed: the segment and queue are created and the worker is
\* registered with the postmaster; the controller then waits for it
LaunchBegin(api, queue_size, script, r, f) ==
    /\ ctl = Idle
    /\ LaunchCheck(queue_size) = "ok"
    /\ CanRegister
    /\ LET t == ntasks + 1
           qs == EffectiveQueueSize(queue_size)
           cookie == LaunchCookie(api, r, f)
       IN  /\ ntasks' = t
           /\ task' = Append(task,
                [api |-> api, cookie |-> cookie, queue_size |-> qs,
                 script |-> script, owner |-> curUser])
           /\ worker' = Append(worker,
                [pc |-> "registered", pid |-> 0, ip |-> 0, die |-> FALSE,
                 rp |-> 0])
           /\ seg' = Append(seg,
                [attached |-> TRUE, sender |-> "none", q |-> <<>>,
                 cap |-> MaxCap, cookie |-> cookie,
                 cancel_requested |-> 0, cb_pid |-> NoCallback,
                 progress_pct |-> -1, progress_msg |-> NoMessage])
           /\ stream' = Append(stream, NoStream)
           /\ hist' = Append(hist, NoHist)
           /\ ctl' = [op |-> "launch_startup", t |-> t, pid |-> 0, arg |-> 0]
    /\ UNCHANGED <<worker_hash, session_stats, curUser, max_workers, list, progress>>

\* a launch that fails its checks, or whose worker cannot be registered
\* (the segment is detached again), raises ERROR and changes nothing
LaunchFail ==
    /\ ctl = Idle
    /\ ~(CanRegister /\ \A qs \in QueueSizes : LaunchCheck(qs) = "ok")
    /\ UNCHANGED vars

\* WaitForBackgroundWorkerStartup: BGWH_STARTED sets the pid; BGWH_STOPPED
\* leaves the local pid_t as it was, uninitialized
LaunchStartup(g) ==
    /\ ctl.op = "launch_startup"
    /\ worker[ctl.t].pc # "registered"
    /\ IF Live(ctl.t) THEN g = worker[ctl.t].pid ELSE g \in GarbagePids
    /\ ctl' = [ctl EXCEPT !.op = "launch_attach", !.pid = g]
    /\ UNCHANGED <<ntasks, task, worker, seg, worker_hash, session_stats,
                   stream, hist, curUser, max_workers, list, progress>>

\* shm_mq_wait_for_attach returns SHM_MQ_SUCCESS once the sender is set and
\* SHM_MQ_DETACHED once the worker has stopped without attaching
WaitForAttachReturns(t) ==
    seg[t].sender # "none" \/ worker[t].pc = "exited"

NewInfo(pid, t) ==
    [pid |-> pid, task |-> t, cookie |-> task[t].cookie,
     current_user_id |-> curUser, consumed |-> FALSE,
     mapping_pinned |-> TRUE,
     result_disabled |-> (task[t].api = "submit_v2"),
     canceled |-> FALSE, queue_size |-> task[t].queue_size,
     last_error |-> ""]

\* save_worker_info, dsm_pin_mapping, the statistics and the return
LaunchFinish ==
    /\ ctl.op = "launch_attach"
    /\ WaitForAttachReturns(ctl.t)
    /\ LET t == ctl.t
           pid == ctl.pid
           H0 == IF worker_hash.live THEN worker_hash
                 ELSE [live |-> TRUE, tab |-> <<>>]
           old == find_worker_info(H0, pid)
           \* the stale entry's segment is detached first
           after == IF old = NULL
                    THEN [hash |-> H0, stats |-> session_stats]
                    ELSE AfterDetach(H0, session_stats, seg[old.task])
           seg1 == IF old = NULL THEN seg
                   ELSE [seg EXCEPT ![old.task] = DetachedSeg(@)]
       IN  IF old # NULL /\ curUser # old.current_user_id
           THEN \* ereport(FATAL): the session ends
                /\ ctl' = [Idle EXCEPT !.op = "fatal"]
                /\ UNCHANGED <<seg, worker_hash, session_stats, hist>>
           ELSE IF ~after.hash.live
           THEN \* hash_search(NULL, ...): the backend crashes
                /\ ctl' = Crashed
                /\ seg' = seg1
                /\ worker_hash' = after.hash
                /\ session_stats' = after.stats
                /\ hist' = [hist EXCEPT ![t].late = "destroyed registry"]
           ELSE /\ ctl' = Idle
                /\ seg' = [seg1 EXCEPT ![t].cb_pid = pid]
                /\ worker_hash' =
                     [live |-> TRUE,
                      tab |-> HashEnter(after.hash.tab, pid, NewInfo(pid, t))]
                /\ session_stats' =
                     [after.stats EXCEPT !.workers_launched = @ + 1]
                /\ hist' = [hist EXCEPT ![t].handle =
                              [pid |-> pid, cookie |-> task[t].cookie]]
    /\ UNCHANGED <<ntasks, task, worker, stream, curUser, max_workers, list, progress>>


(***************************************************************************)
(* The checks every operation makes before it acts                         *)
(***************************************************************************)
\* find_worker_info, check_rights: v1 result and detach
V1Check(pid) ==
    LET info == find_worker_info(worker_hash, pid)
    IN  IF info = NULL THEN ErrNotAttached
        ELSE IF ~check_rights(info) THEN ErrPermission
        ELSE Passed

\* what each v2 operation raises (or returns) on a cookie mismatch
CookieMismatchOutcome(op) ==
    CASE op = "result_v2" -> ErrCookieResult
      [] op = "get_progress_v2" -> ReturnsNull
      [] OTHER -> ErrCookieMismatch

\* what each v2 operation raises (or returns) for a pid not in the hash
UnknownPidOutcome(op) ==
    IF op = "get_progress_v2" THEN ReturnsNull ELSE ErrNotAttached

V2Ops ==
    {"result_v2", "detach_v2", "cancel_v2", "cancel_v2_grace", "wait_v2",
     "wait_v2_timeout", "get_progress_v2"}

\* faulty variant: the cookie is not compared
V2CheckNoCookie(op, pid, cookie) ==
    LET info == find_worker_info(worker_hash, pid)
    IN  IF info = NULL THEN UnknownPidOutcome(op)
        ELSE IF ~check_rights(info) THEN ErrPermission
        ELSE Passed

\* find_worker_info, check_rights, cookie comparison: every v2 operation
V2Check(op, pid, cookie) ==
    LET info == find_worker_info(worker_hash, pid)
    IN  IF info = NULL THEN UnknownPidOutcome(op)
        ELSE IF ~check_rights(info) THEN ErrPermission
        ELSE IF info.cookie # cookie THEN CookieMismatchOutcome(op)
        ELSE Passed

\* faulty variant: the consumed flag is not looked at
ResultFlagsUnchecked(info) == Passed

\* faulty variant: the result_disabled flag is not looked at
ResultFlagsConsumedOnly(info) ==
    IF info.consumed THEN ErrConsumed ELSE Passed

\* the result_disabled and consumed checks of pg_background_result
ResultFlags(info) ==
    IF info.result_disabled THEN ErrDisabled
    ELSE IF info.consumed THEN ErrConsumed
    ELSE Passed

\* the first call of pg_background_result
ResultCheck(pid) ==
    IF V1Check(pid) # Passed THEN V1Check(pid)
    ELSE ResultFlags(find_worker_info(worker_hash, pid))

\* a call made as op(pid, cookie); the v1 operations take no cookie
OpCheck(op, pid, cookie) ==
    CASE op \in {"detach"} -> V1Check(pid)
      [] op = "result" -> ResultCheck(pid)
      [] op = "result_v2" ->
           IF V2Check(op, pid, cookie) # Passed THEN V2Check(op, pid, cookie)
           ELSE ResultCheck(pid)
      [] OTHER -> V2Check(op, pid, cookie)

\* the hash entry that points at task t (state->info of its stream)
InfoPids(t) ==
    IF worker_hash.live
    THEN {p \in DOMAIN worker_hash.tab : worker_hash.tab[p].task = t}
    ELSE {}
InfoPid(t) == CHOOSE p \in InfoPids(t) : TRUE

(***************************************************************************)
(* result, result_v2                                                       *)
(***************************************************************************)
\* column counts of the caller's column definition list
ExpectedNatts == {1, 2}

\* SRF first call: checks, consumed flag, unpin, result state; the call
\* then falls into the receive loop
ResultFirstCall(op, pid, cookie, natts) ==
    /\ ctl = Idle
    /\ op \in {"result", "result_v2"}
    /\ OpCheck(op, pid, cookie) = Passed
    /\ LET t == worker_hash.tab[pid].task
       IN  /\ worker_hash' = [worker_hash EXCEPT
                                !.tab[pid].consumed = TRUE,
                                !.tab[pid].mapping_pinned = FALSE]
           /\ stream' = [stream EXCEPT ![t] =
                           [NoStream EXCEPT !.open = TRUE, !.natts = natts]]
           /\ hist' = [hist EXCEPT ![t].opened = @ + 1,
                                   ![t].outcome = "open"]
           /\ ctl' = [op |-> "result", t |-> t, pid |-> pid, arg |-> 0]
    /\ UNCHANGED <<ntasks, task, worker, seg, session_stats, curUser, max_workers, list, progress>>

\* a later SRF call on an open stream re-enters the receive loop
ResultNextCall(t) ==
    /\ ctl = Idle
    /\ t \in Tasks
    /\ stream[t].open
    /\ InfoPids(t) # {}
    /\ ctl' = [op |-> "result", t |-> t, pid |-> InfoPid(t), arg |-> 0]
    /\ UNCHANGED <<ntasks, task, worker, seg, worker_hash, session_stats,
                   stream, hist, curUser, max_workers, list, progress>>

\* faulty variant: the mapping is still pinned when the call fails, the
\* abort leaves the segment attached and the entry in the table
StreamTeardownPinned(t) ==
    /\ stream' = [stream EXCEPT ![t] = NoStream]
    /\ ctl' = Idle
    /\ UNCHANGED <<seg, worker_hash, session_stats>>

\* the stream ends.  At the end of the set the code calls dsm_detach; on an
\* ERROR the query is aborted, and since the first call unpinned the mapping
\* the abort detaches the segment.  Either way the cleanup callback runs.
StreamTeardown(t) ==
    LET after == AfterDetach(worker_hash, session_stats, seg[t])
    IN  /\ stream' = [stream EXCEPT ![t] = NoStream]
        /\ seg' = [seg EXCEPT ![t] = DetachedSeg(@)]
        /\ worker_hash' = after.hash
        /\ session_stats' = after.stats
        /\ ctl' = Idle

\* faulty variant: the receive does not block, an empty queue reads as
\* detached
ReceiveNoWait(s, w) == TRUE

\* shm_mq_receive (blocking): the oldest frame, or SHM_MQ_DETACHED when the
\* queue is empty and the sender is gone
ReceiveReady(s, w) ==
    s.q # <<>> \/ s.sender = "detached" \/ w.pc = "exited"
\* faulty variant: the newest frame is taken
ReceiveNewest(s) == s.q[Len(s.q)]
ReceiveFrame(s) == Head(s.q)
ReceiveRest(s) == Tail(s.q)

\* faulty variant: a row is taken without a row description
FormTupleNoSchemaCheck(st, f) ==
    IF st.has_row_description /\ f.n # st.natts THEN "malformed DataRow"
    ELSE "ok"

\* faulty variant: the column count of a row is not compared
FormTupleNoCountCheck(st, f) ==
    IF ~st.has_row_description THEN "DataRow not preceded by RowDescription"
    ELSE "ok"

\* form_result_tuple: the checks made before the row's values are read
form_result_tuple(st, f) ==
    IF ~st.has_row_description THEN "DataRow not preceded by RowDescription"
    ELSE IF f.n # st.natts THEN "malformed DataRow"
    ELSE "ok"

\* one frame of the receive loop is decoded
ResultFrame ==
    /\ ctl.op = "result"
    /\ seg[ctl.t].q # <<>>
    /\ LET t == ctl.t
           f == ReceiveFrame(seg[t])
           st == stream[t]
           h1 == [hist[t] EXCEPT !.decoded = Append(@, f)]
           s1 == [seg[t] EXCEPT !.q = ReceiveRest(seg[t])]
           keepOn == /\ seg' = [seg EXCEPT ![t] = s1]
                     /\ UNCHANGED <<worker_hash, session_stats, ctl>>
       IN  CASE f.tag = "E" ->
                  \* store_worker_error, then the error is re-thrown
                  /\ hist' = [hist EXCEPT ![t] =
                                [h1 EXCEPT !.outcome = "RemoteError"]]
                  /\ LET H1 == [worker_hash EXCEPT
                                  !.tab[ctl.pid].last_error = f.v]
                         after == AfterDetach(H1, session_stats, seg[t])
                     IN  /\ worker_hash' = after.hash
                         /\ session_stats' = after.stats
                  /\ stream' = [stream EXCEPT ![t] = NoStream]
                  /\ seg' = [seg EXCEPT ![t] = DetachedSeg(@)]
                  /\ ctl' = Idle
             [] f.tag = "N" ->
                  \* store_worker_error; the notice is raised below ERROR
                  \* and the loop goes on
                  /\ hist' = [hist EXCEPT ![t] = h1]
                  /\ worker_hash' = [worker_hash EXCEPT
                                       !.tab[ctl.pid].last_error = f.v]
                  /\ seg' = [seg EXCEPT ![t] = s1]
                  /\ UNCHANGED <<session_stats, stream, ctl>>
             [] f.tag = "T" ->
                  IF st.has_row_description \/ f.n # st.natts
                  THEN /\ hist' = [hist EXCEPT ![t] =
                              [h1 EXCEPT !.outcome =
                                 IF st.has_row_description
                                 THEN "ProtocolViolation"
                                 ELSE "DatatypeMismatch"]]
                       /\ StreamTeardown(t)
                  ELSE /\ hist' = [hist EXCEPT ![t] = h1]
                       /\ stream' = [stream EXCEPT
                                       ![t].has_row_description = TRUE]
                       /\ keepOn
             [] f.tag = "D" ->
                  IF form_result_tuple(st, f) # "ok"
                  THEN /\ hist' = [hist EXCEPT ![t] =
                              [h1 EXCEPT !.outcome = "ProtocolViolation"]]
                       /\ StreamTeardown(t)
                  ELSE /\ hist' = [hist EXCEPT ![t] = h1]
                       /\ seg' = [seg EXCEPT ![t] = s1]
                       /\ ctl' = Idle
                       /\ UNCHANGED <<worker_hash, session_stats, stream>>
             [] f.tag = "C" ->
                  /\ hist' = [hist EXCEPT ![t] = h1]
                  /\ stream' = [stream EXCEPT
                                  ![t].command_tags = Append(@, f.v)]
                  /\ keepOn
             [] f.tag = "Z" ->
                  /\ hist' = [hist EXCEPT ![t] = h1]
                  /\ stream' = [stream EXCEPT ![t].complete = TRUE]
                  /\ keepOn
    /\ UNCHANGED <<ntasks, task, worker, curUser, max_workers, list, progress>>

\* the row made from the command tag when no row description arrived
TagRow(st) == Frame("row", 1, Head(st.command_tags))

\* faulty variant: a stream that has its row description counts as complete
AfterLoopLenient(st) ==
    IF ~st.complete /\ ~st.has_row_description THEN "ConnectionLost"
    ELSE IF ~st.has_row_description /\ st.natts # 1 THEN "DatatypeMismatch"
    ELSE IF ~st.has_row_description /\ st.command_tags # <<>> THEN "row"
    ELSE "done"

\* faulty variant: no row is made from a command tag
AfterLoopNoTagRow(st) ==
    IF ~st.complete THEN "ConnectionLost"
    ELSE IF ~st.has_row_description /\ st.natts # 1 THEN "DatatypeMismatch"
    ELSE "done"

\* what the call does once the receive loop has ended
AfterLoop(st) ==
    IF ~st.complete THEN "ConnectionLost"
    ELSE IF ~st.has_row_description /\ st.natts # 1 THEN "DatatypeMismatch"
    ELSE IF ~st.has_row_description /\ st.command_tags # <<>> THEN "row"
    ELSE "done"

\* the loop ends on SHM_MQ_DETACHED: lost connection, the synthetic
\* command-tag row, or the end of the set (dsm_detach, cleanup callback)
ResultEnd ==
    /\ ctl.op = "result"
    /\ seg[ctl.t].q = <<>>
    /\ ReceiveReady(seg[ctl.t], worker[ctl.t])
    /\ LET t == ctl.t
           st == stream[t]
       IN  IF AfterLoop(st) = "row"
           THEN /\ hist' = [hist EXCEPT
                              ![t].decoded = Append(@, TagRow(st))]
                /\ stream' = [stream EXCEPT ![t].command_tags = Tail(@)]
                /\ ctl' = Idle
                /\ UNCHANGED <<seg, worker_hash, session_stats>>
           ELSE IF AfterLoop(st) = "done"
           THEN \* dsm_detach(state->info->seg), then state->info->seg = NULL
                LET after == AfterDetach(worker_hash, session_stats, seg[t])
                    late == IF seg[t].attached
                            THEN LateStore(after.hash, ctl.pid) ELSE "none"
                IN  /\ hist' = [hist EXCEPT ![t].outcome = "done",
                                            ![t].late = late]
                    /\ stream' = [stream EXCEPT ![t] = NoStream]
                    /\ seg' = [seg EXCEPT ![t] = DetachedSeg(@)]
                    /\ worker_hash' = after.hash
                    /\ session_stats' = after.stats
                    /\ ctl' \in AfterLateStore(late)
           ELSE /\ hist' = [hist EXCEPT ![t].outcome = AfterLoop(st)]
                /\ StreamTeardown(t)
    /\ UNCHANGED <<ntasks, task, worker, curUser, max_workers, list, progress>>


\* a later SRF call after the hash entry state->info points at was removed
\* (detach or a duplicate-pid launch in between): a read through a dangling
\* pointer: the backend crashes, or the call ends in some error
ResultNextDangling(t, crash) ==
    /\ ctl = Idle
    /\ t \in Tasks
    /\ stream[t].open
    /\ InfoPids(t) = {}
    /\ stream' = [stream EXCEPT ![t] = NoStream]
    /\ IF crash
       THEN /\ ctl' = Crashed
            /\ hist' = hist
       ELSE /\ ctl' = Idle
            /\ hist' = [hist EXCEPT ![t].outcome = "Undefined"]
    /\ UNCHANGED <<ntasks, task, worker, seg, worker_hash, session_stats,
                   curUser, max_workers, list, progress>>

(***************************************************************************)
(* detach, detach_v2                                                       *)
(***************************************************************************)
DetachCall(op, pid, cookie) ==
    /\ ctl = Idle
    /\ op \in {"detach", "detach_v2"}
    /\ OpCheck(op, pid, cookie) = Passed
    /\ LET t == worker_hash.tab[pid].task
           \* dsm_detach(info->seg), then info->seg = NULL
           after == AfterDetach(worker_hash, session_stats, seg[t])
           late == IF seg[t].attached
                   THEN LateStore(after.hash, pid) ELSE "none"
       IN  /\ seg' = [seg EXCEPT ![t] = DetachedSeg(@)]
           /\ worker_hash' = after.hash
           /\ session_stats' = after.stats
           /\ hist' = [hist EXCEPT ![t].late = late]
           /\ ctl' \in AfterLateStore(late)
    /\ UNCHANGED <<ntasks, task, worker, stream, curUser, max_workers, list, progress>>

(***************************************************************************)
(* SET ROLE / SET SESSION AUTHORIZATION between two calls                  *)
(***************************************************************************)
SetUser(u) ==
    /\ ctl = Idle
    /\ u # curUser
    /\ curUser' = u
    /\ UNCHANGED <<ntasks, task, worker, seg, worker_hash, session_stats, ctl,
                   stream, hist, max_workers, list, progress>>

(***************************************************************************)
(* cancel_v2, cancel_v2_grace                                              *)
(***************************************************************************)
GraceInputs == {-1, 0, PGBG_GRACE_MS_MAX + 1}

\* faulty variant: no upper limit on the grace period
ClampGraceNoCeiling(grace_ms) == IF grace_ms < 0 THEN 0 ELSE grace_ms

ClampGrace(grace_ms) ==
    IF grace_ms < 0 THEN 0
    ELSE IF grace_ms > PGBG_GRACE_MS_MAX THEN PGBG_GRACE_MS_MAX
    ELSE grace_ms

\* kill(pid, SIGTERM): handle_sigterm runs in whichever live worker has
\* that pid and sets ProcDiePending
AfterSigterm(W, pid) ==
    [t \in DOMAIN W |->
       IF W[t].pid = pid /\ W[t].pc \in {"init", "attached", "running", "done", "fatal"}
       THEN [W[t] EXCEPT !.die = TRUE] ELSE W[t]]

\* kill(pid, SIGKILL): the process with that pid is gone
AfterSigkill(W, pid) ==
    [t \in DOMAIN W |->
       IF W[t].pid = pid /\ W[t].pc \in {"init", "attached", "running", "done", "fatal"}
       THEN [W[t] EXCEPT !.pc = "exited", !.die = FALSE] ELSE W[t]]

\* what pgbg_timestamp_diff_ms may give at a poll of a loop whose limit is
\* at most cap: nothing yet, or the longest limit
ElapsedValues(cap) == {0, cap}

\* faulty variant: the limit has to be passed
ReachedStrict(elapsed_ms, limit_ms) == elapsed_ms > limit_ms

\* elapsed_ms >= grace_ms of the grace loop, elapsed_ms >= timeout_ms of
\* the timed wait
Reached(elapsed_ms, limit_ms) == elapsed_ms >= limit_ms

\* faulty variant: the grace loop is entered whatever the grace period
GraceGivenAlways(grace_ms) == TRUE

\* the grace loop is entered for a positive grace period only
GraceGiven(grace_ms) == ~(grace_ms <= 0)

CancelCall(op, pid, cookie, grace_ms) ==
    /\ ctl = Idle
    /\ op \in {"cancel_v2", "cancel_v2_grace"}
    /\ op = "cancel_v2" => grace_ms = 0
    /\ OpCheck(op, pid, cookie) = Passed
    /\ LET info == worker_hash.tab[pid]
           t == info.task
           grace == ClampGrace(grace_ms)
       IN  /\ worker_hash' = [worker_hash EXCEPT !.tab[pid].canceled = TRUE]
           \* pgbg_request_cancel
           /\ seg' = [seg EXCEPT ![t].cancel_requested =
                        IF seg[t].attached THEN 1 ELSE @]
           \* pgbg_send_cancel_signals
           /\ worker' = IF info.pid > 0 THEN AfterSigterm(worker, info.pid)
                        ELSE worker
           /\ ctl' = IF ~GraceGiven(grace) THEN Idle
                     ELSE [op |-> "cancel_grace", t |-> t, pid |-> pid,
                           arg |-> grace]
    /\ UNCHANGED <<ntasks, task, session_stats, stream, hist, curUser, max_workers, list, progress>>

\* faulty variant: the flag is left as it is before the signal is sent
CancelBeginNoFlag(op, pid, cookie, grace_ms) ==
    /\ ctl = Idle
    /\ op \in {"cancel_v2", "cancel_v2_grace"}
    /\ op = "cancel_v2" => grace_ms = 0
    /\ OpCheck(op, pid, cookie) = Passed
    /\ worker_hash' = [worker_hash EXCEPT !.tab[pid].canceled = TRUE]
    /\ ctl' = [op |-> "cancel_signal", t |-> worker_hash.tab[pid].task,
               pid |-> pid, arg |-> ClampGrace(grace_ms)]
    /\ UNCHANGED <<ntasks, task, worker, seg, session_stats, stream, hist,
                   curUser, max_workers, list, progress>>

\* the same call in the steps other processes can tell apart.  First the
\* checks, info->canceled and pgbg_request_cancel
CancelBegin(op, pid, cookie, grace_ms) ==
    /\ ctl = Idle
    /\ op \in {"cancel_v2", "cancel_v2_grace"}
    /\ op = "cancel_v2" => grace_ms = 0
    /\ OpCheck(op, pid, cookie) = Passed
    /\ LET t == worker_hash.tab[pid].task
       IN  /\ worker_hash' = [worker_hash EXCEPT !.tab[pid].canceled = TRUE]
           /\ seg' = [seg EXCEPT ![t].cancel_requested =
                        IF seg[t].attached THEN 1 ELSE @]
           /\ ctl' = [op |-> "cancel_signal", t |-> t, pid |-> pid,
                      arg |-> ClampGrace(grace_ms)]
    /\ UNCHANGED <<ntasks, task, worker, session_stats, stream, hist, curUser,
                   max_workers, list, progress>>

\* then pgbg_send_cancel_signals: SIGTERM, and the grace loop if a grace
\* period was given
CancelSigterm ==
    /\ ctl.op = "cancel_signal"
    /\ LET info == worker_hash.tab[ctl.pid]
       IN  worker' = IF info.pid > 0 THEN AfterSigterm(worker, info.pid)
                    ELSE worker
    /\ ctl' = IF ~GraceGiven(ctl.arg) THEN Idle
              ELSE [ctl EXCEPT !.op = "cancel_grace"]
    /\ UNCHANGED <<ntasks, task, seg, worker_hash, session_stats, stream,
                   hist, curUser, max_workers, list, progress>>

\* a poll of the grace loop finds the worker stopped: return
CancelPollStopped ==
    /\ ctl.op = "cancel_grace"
    /\ worker[ctl.t].pc = "exited"
    /\ ctl' = Idle
    /\ UNCHANGED <<ntasks, task, worker, seg, worker_hash, session_stats,
                   stream, hist, curUser, max_workers, list, progress>>

\* the grace period has elapsed with the worker not seen stopped: SIGKILL
CancelEscalate ==
    /\ ctl.op = "cancel_grace"
    /\ worker[ctl.t].pc # "exited"
    /\ ~(\A e \in ElapsedValues(PGBG_GRACE_MS_MAX) : ~Reached(e, ctl.arg))
    /\ LET info == worker_hash.tab[ctl.pid]
       IN  worker' = IF info.pid > 0 THEN AfterSigkill(worker, info.pid)
                    ELSE worker
    /\ ctl' = Idle
    /\ UNCHANGED <<ntasks, task, seg, worker_hash, session_stats, stream,
                   hist, curUser, max_workers, list, progress>>

\* a poll finds the worker not stopped and the grace period not over:
\* pgbg_sleep_with_backoff
CancelSleep ==
    /\ ctl.op = "cancel_grace"
    /\ worker[ctl.t].pc # "exited"
    /\ ~(\A e \in ElapsedValues(PGBG_GRACE_MS_MAX) : Reached(e, ctl.arg))
    /\ ctl' = [ctl EXCEPT !.op = "cancel_sleep"]
    /\ UNCHANGED <<ntasks, task, worker, seg, worker_hash, session_stats,
                   stream, hist, curUser, max_workers, list, progress>>

\* pg_usleep returns: the next poll
CancelWake ==
    /\ ctl.op = "cancel_sleep"
    /\ ctl' = [ctl EXCEPT !.op = "cancel_grace"]
    /\ UNCHANGED <<ntasks, task, worker, seg, worker_hash, session_stats,
                   stream, hist, curUser, max_workers, list, progress>>

(***************************************************************************)
(* wait_v2, wait_v2_timeout                                                *)
(***************************************************************************)
TimeoutInputs == {-1, 0, PGBG_TIMEOUT_MS_MAX + 1}

ClampTimeout(timeout_ms) ==
    IF timeout_ms < 0 THEN 0
    ELSE IF timeout_ms > PGBG_TIMEOUT_MS_MAX THEN PGBG_TIMEOUT_MS_MAX
    ELSE timeout_ms

\* the worker can take no step until the controller acts: it is blocked
\* sending into a full queue with no interrupt pending
WorkerBlocked(t) ==
    /\ worker[t].pc \in {"running", "fatal"}
    /\ ~CanSend(seg[t])
    /\ ~worker[t].die

WaitCall(op, pid, cookie, timeout_ms) ==
    /\ ctl = Idle
    /\ op \in {"wait_v2", "wait_v2_timeout"}
    /\ op = "wait_v2" => timeout_ms = 0
    /\ OpCheck(op, pid, cookie) = Passed
    /\ ctl' = [op |-> op, t |-> worker_hash.tab[pid].task, pid |-> pid,
               arg |-> ClampTimeout(timeout_ms)]
    /\ UNCHANGED <<ntasks, task, worker, seg, worker_hash, session_stats,
                   stream, hist, curUser, max_workers, list, progress>>

\* WaitForBackgroundWorkerShutdown returns
WaitReturn ==
    /\ ctl.op = "wait_v2"
    /\ worker[ctl.t].pc = "exited"
    /\ ctl' = Idle
    /\ UNCHANGED <<ntasks, task, worker, seg, worker_hash, session_stats,
                   stream, hist, curUser, max_workers, list, progress>>

\* faulty variant: the wait that finds the worker stopped detaches the
\* segment, dropping what the queue holds
WaitPollStoppedDetaches ==
    /\ ctl.op = "wait_v2_timeout"
    /\ worker[ctl.t].pc = "exited"
    /\ ctl' = Idle
    /\ LET after == AfterDetach(worker_hash, session_stats, seg[ctl.t])
       IN  /\ seg' = [seg EXCEPT ![ctl.t] = DetachedSeg(@)]
           /\ worker_hash' = after.hash
           /\ session_stats' = after.stats
    /\ UNCHANGED <<ntasks, task, worker, stream, hist, curUser, max_workers,
                   list, progress>>

\* a poll finds BGWH_STOPPED: true
WaitPollStopped ==
    /\ ctl.op = "wait_v2_timeout"
    /\ worker[ctl.t].pc = "exited"
    /\ ctl' = Idle
    /\ UNCHANGED <<ntasks, task, worker, seg, worker_hash, session_stats,
                   stream, hist, curUser, max_workers, list, progress>>

\* a poll finds the worker not stopped and the timeout reached: false.  The
\* longest timeout is taken to outlast everything the worker can do by
\* itself: it runs out only on a worker that is blocked.
WaitTimedOut ==
    /\ ctl.op = "wait_v2_timeout"
    /\ worker[ctl.t].pc # "exited"
    /\ ctl.arg = PGBG_TIMEOUT_MS_MAX => WorkerBlocked(ctl.t)
    /\ ~(\A e \in ElapsedValues(PGBG_TIMEOUT_MS_MAX) : ~Reached(e, ctl.arg))
    /\ ctl' = Idle
    /\ UNCHANGED <<ntasks, task, worker, seg, worker_hash, session_stats,
                   stream, hist, curUser, max_workers, list, progress>>

\* a poll finds the worker not stopped and the timeout not reached:
\* pgbg_sleep_with_backoff
WaitSleep ==
    /\ ctl.op = "wait_v2_timeout"
    /\ worker[ctl.t].pc # "exited"
    /\ ~(\A e \in ElapsedValues(PGBG_TIMEOUT_MS_MAX) : Reached(e, ctl.arg))
    /\ ctl' = [ctl EXCEPT !.op = "wait_sleep"]
    /\ UNCHANGED <<ntasks, task, worker, seg, worker_hash, session_stats,
                   stream, hist, curUser, max_workers, list, progress>>

\* pg_usleep returns: the next poll
WaitWake ==
    /\ ctl.op = "wait_sleep"
    /\ ctl' = [ctl EXCEPT !.op = "wait_v2_timeout"]
    /\ UNCHANGED <<ntasks, task, worker, seg, worker_hash, session_stats,
                   stream, hist, curUser, max_workers, list, progress>>

(***************************************************************************)
(* list_v2                                                                 *)
(***************************************************************************)
InvalidOid == "InvalidOid"

\* faulty variant: every entry is listed
ListVisibleAll(info) == TRUE

\* the per-row rights check
ListVisible(info) ==
    info.current_user_id # InvalidOid
      => has_privs_of_role(curUser, info.current_user_id)

\* the columns of a row that the model keeps
ListRow(info) ==
    [pid |-> info.pid, cookie |-> info.cookie,
     user_id |-> info.current_user_id, consumed |-> info.consumed]

\* the per-call loop over the snapshotted pids: each pid is looked up again,
\* the pids no longer registered and the entries the caller may not manage
\* are skipped; the first other entry is returned as a row
RECURSIVE ListScan(_)
ListScan(pids) ==
    IF pids = <<>> THEN NoList
    ELSE LET info == find_worker_info(worker_hash, Head(pids))
         IN  IF info = NULL \/ ~ListVisible(info)
             THEN ListScan(Tail(pids))
             ELSE [open |-> TRUE, pids |-> Tail(pids), row |-> ListRow(info)]

\* the orders hash_seq_search may walk the table in
HashOrders(H) ==
    IF ~H.live THEN {<<>>}
    ELSE {o \in [1..Cardinality(DOMAIN H.tab) -> DOMAIN H.tab] :
            \A i, j \in DOMAIN o : i # j => o[i] # o[j]}

\* SRF first call: the pids of the table are snapshotted, then the first
\* row is looked for
ListFirstCall(order) ==
    /\ ctl = Idle
    /\ ~list.open
    /\ order \in HashOrders(worker_hash)
    /\ list' = ListScan(order)
    /\ UNCHANGED <<ntasks, task, worker, seg, worker_hash, session_stats, ctl,
                   stream, hist, curUser, max_workers, progress>>

\* a later SRF call goes on with the rest of the snapshot
ListNextCall ==
    /\ ctl = Idle
    /\ list.open
    /\ list' = ListScan(list.pids)
    /\ UNCHANGED <<ntasks, task, worker, seg, worker_hash, session_stats, ctl,
                   stream, hist, curUser, max_workers, progress>>

(***************************************************************************)
(* pg_background_progress (worker) and get_progress_v2 (controller)        *)
(***************************************************************************)
\* the pct argument of the k-th pg_background_progress call of a request
ProgressArg(k) == 60 * k - 65

ClampPct(pct) == IF pct < 0 THEN 0 ELSE IF pct > 100 THEN 100 ELSE pct

\* the stores of one pg_background_progress call
StoresPerReport == Cardinality(MsgCells) + 1

\* faulty variant: the percentage is stored before the message
ReportStorePctFirst(s) == s

\* the s-th store (from 0) of a pg_background_progress call: the message
\* bytes in order, then (after the write barrier) the percentage, named 0
ReportStore(s) == IF s < Cardinality(MsgCells) THEN s + 1 ELSE 0

\* the running request calls pg_background_progress; one store of it
WorkerReport(t) ==
    /\ worker[t].pc = "running"
    /\ worker[t].rp < StoresPerReport * MaxReports
    /\ LET k == (worker[t].rp \div StoresPerReport) + 1
           c == ReportStore(worker[t].rp % StoresPerReport)
       IN  seg' = IF c = 0
                  THEN [seg EXCEPT ![t].progress_pct = ClampPct(ProgressArg(k))]
                  ELSE [seg EXCEPT ![t].progress_msg[c] = k]
    /\ worker' = [worker EXCEPT ![t].rp = @ + 1]
    /\ UNCHANGED <<ntasks, task, worker_hash, session_stats, ctl, stream,
                   hist, curUser, max_workers, list, progress>>

\* get_progress_v2 passes its checks and reads progress_pct; a negative
\* value (nothing reported) returns NULL
ProgressCall(pid, cookie) ==
    /\ ctl = Idle
    /\ OpCheck("get_progress_v2", pid, cookie) = Passed
    /\ LET t == worker_hash.tab[pid].task
           pct == seg[t].progress_pct
       IN  IF ~seg[t].attached \/ pct < 0
           THEN UNCHANGED <<ctl, progress>>
           ELSE /\ ctl' = [op |-> "get_progress", t |-> t, pid |-> pid,
                           arg |-> 0]
                /\ progress' = [pct |-> pct, msg |-> <<>>]
    /\ UNCHANGED <<ntasks, task, worker, seg, worker_hash, session_stats,
                   stream, hist, curUser, max_workers, list>>

\* after the read barrier: memcpy takes the next byte of progress_msg
ProgressCopy ==
    /\ ctl.op = "get_progress"
    /\ Len(progress.msg) < Cardinality(MsgCells)
    /\ progress' = [progress EXCEPT !.msg =
                      Append(@, seg[ctl.t].progress_msg[Len(@) + 1])]
    /\ UNCHANGED <<ntasks, task, worker, seg, worker_hash, session_stats, ctl,
                   stream, hist, curUser, max_workers, list>>

\* the copy is complete: (progress_pct, progress_msg) is returned
ProgressReturn ==
    /\ ctl.op = "get_progress"
    /\ Len(progress.msg) = Cardinality(MsgCells)
    /\ ctl' = Idle
    /\ progress' = NoProgress
    /\ UNCHANGED <<ntasks, task, worker, seg, worker_hash, session_stats,
                   stream, hist, curUser, max_workers, list>>

(***************************************************************************)
(* Calls that fail their checks                                            *)
(***************************************************************************)
AllOps == V2Ops \cup {"result", "detach"}

\* the call raises its ERROR (get_progress_v2: returns NULL) and nothing
\* has been touched
Rejected ==
    /\ ctl = Idle
    /\ ~(\A op \in AllOps, pid \in GarbagePids, c \in CookieValues :
            OpCheck(op, pid, c) = Passed)
    /\ UNCHANGED vars

(***************************************************************************)
(* Specification                                                           *)
(***************************************************************************)
\* the steps of a worker that no signal was sent to
WorkerRun ==
    \E t \in Tasks :
       \/ \E p \in Pids : WorkerStart(t, p)
       \/ WorkerFailStartup(t)
       \/ WorkerAttach(t)
       \/ WorkerBegin(t)
       \/ WorkerSend(t)
       \/ WorkerReady(t)
       \/ WorkerExit(t)

WorkerStep ==
    \/ WorkerRun
    \/ \E t \in Tasks :
          \/ \E insend \in BOOLEAN : WorkerDie(t, insend)
          \/ WorkerFatalSend(t)

LaunchWith(limit, scripts, apis) ==
    \/ \E api \in apis, qs \in QueueSizes, sc \in scripts,
          r \in RandomOutcomes, f \in FallbackInputs :
          ntasks < limit /\ LaunchBegin(api, qs, sc, r, f)
    \/ LaunchFail
    \/ \E g \in GarbagePids : LaunchStartup(g)
    \/ LaunchFinish

Launch(limit, scripts) == LaunchWith(limit, scripts, LaunchApis)

List ==
    \/ \E order \in HashOrders(worker_hash) : ListFirstCall(order)
    \/ ListNextCall

Result ==
    \/ \E op \in {"result", "result_v2"}, pid \in GarbagePids,
          c \in CookieValues, n \in ExpectedNatts :
          ResultFirstCall(op, pid, c, n)
    \/ \E t \in Tasks : ResultNextCall(t)
    \/ \E t \in Tasks, crash \in BOOLEAN : ResultNextDangling(t, crash)
    \/ ResultFrame
    \/ ResultEnd

Detach ==
    \E op \in {"detach", "detach_v2"}, pid \in GarbagePids,
       c \in CookieValues : DetachCall(op, pid, c)

Cancel ==
    \/ \E op \in {"cancel_v2", "cancel_v2_grace"}, pid \in GarbagePids,
          c \in CookieValues, g \in GraceInputs : CancelCall(op, pid, c, g)
    \/ CancelPollStopped
    \/ CancelEscalate

Wait ==
    \/ \E op \in {"wait_v2", "wait_v2_timeout"}, pid \in GarbagePids,
          c \in CookieValues, tm \in TimeoutInputs :
          WaitCall(op, pid, c, tm)
    \/ WaitReturn
    \/ WaitPollStopped
    \/ WaitTimedOut

\* one task from launch to the end of its entry, every operation
Next ==
    \/ WorkerStep
    \/ Launch(MaxTasks, Scripts)
    \/ Result
    \/ Detach
    \/ Cancel
    \/ Wait
    \/ Rejected
    \/ \E u \in Users : SetUser(u)

Spec == Init /\ [][Next]_vars

\* several tasks one after the other (pids are reused), launched, detached
\* and canceled
NextSeq ==
    \/ WorkerStep
    \/ Launch(MaxSeqTasks, SeqScripts)
    \/ Detach
    \/ Cancel
    \/ Rejected

SpecSeq == InitSeq /\ [][NextSeq]_vars

\* several tasks of several owners, launched and detached while the
\* registry is listed
NextList ==
    \/ WorkerRun
    \/ LaunchWith(MaxSeqTasks, SeqScripts, {"launch"})
    \/ Detach
    \/ \E u \in Users : SetUser(u)
    \/ List

SpecList == Init /\ [][NextList]_vars

\* several tasks one after the other (pids are reused), every operation
NextAll ==
    \/ WorkerStep
    \/ LaunchWith(MaxSeqTasks, SeqScripts, {"launch"})
    \/ Result
    \/ Detach
    \/ Cancel
    \/ Wait
    \/ List
    \/ Rejected

SpecAll == Init /\ [][NextAll]_vars

\* one task whose worker sends ill-formed frame sequences, and its result
NextDecode ==
    \/ WorkerRun
    \/ LaunchWith(MaxTasks, DecodeScripts, {"launch"})
    \/ Result
    \/ Detach

SpecDecode == Init /\ [][NextDecode]_vars

\* several tasks one after the other whose workers send ill-formed frame
\* sequences or stop early, and their results
NextDrain ==
    \/ WorkerRun
    \/ LaunchWith(MaxSeqTasks, DecodeScripts, {"launch"})
    \/ Result
    \/ Detach

SpecDrain == Init /\ [][NextDrain]_vars

\* cancel in the steps of its signals and polls
CancelSteps ==
    \/ \E op \in {"cancel_v2", "cancel_v2_grace"}, pid \in GarbagePids,
          c \in CookieValues, g \in GraceInputs : CancelBegin(op, pid, c, g)
    \/ CancelSigterm
    \/ CancelPollStopped
    \/ CancelEscalate
    \/ CancelSleep
    \/ CancelWake

\* the timed wait in the steps of its polls
WaitSteps == Wait \/ WaitSleep \/ WaitWake

\* one task, canceled and waited for, with the polling loops spelled out
NextTimed ==
    \/ WorkerStep
    \/ LaunchWith(MaxTasks, SeqScripts, {"launch_v2"})
    \/ CancelSteps
    \/ WaitSteps

SpecTimed == Init /\ [][NextTimed]_vars

\* the controller is scheduled (its next step is taken) and its clock
\* advances (a loop that keeps polling finds its limit reached)
SpecTimedFair ==
    /\ SpecTimed
    /\ WF_vars(CancelSigterm)
    /\ WF_vars(CancelWake)
    /\ SF_vars(CancelPollStopped \/ CancelEscalate)

\* one task canceled step by step while its worker starts, and its result
NextCancelStart ==
    \/ WorkerStep
    \/ LaunchWith(MaxTasks, SeqScripts, {"launch_v2"})
    \/ CancelSteps
    \/ Result
    \/ Detach

SpecCancelStart == Init /\ [][NextCancelStart]_vars

\* one task that raises a notice, fails or completes, and is consumed,
\* detached or canceled
NextStats ==
    \/ WorkerStep
    \/ LaunchWith(MaxTasks, StatsScripts, {"launch"})
    \/ Result
    \/ Detach
    \/ Cancel

SpecStats == Init /\ [][NextStats]_vars

\* one task with or without retrievable results, waited for and never
\* drained
NextWait ==
    \/ WorkerRun
    \/ LaunchWith(MaxTasks, Scripts, {"launch_v2", "submit_v2"})
    \/ Wait

SpecWait == Init /\ [][NextWait]_vars

\* the worker is scheduled while it can take a step, and the controller
\* returns from WaitForBackgroundWorkerShutdown once the worker has stopped
SpecWaitFair ==
    /\ SpecWait
    /\ WF_vars(WorkerRun)
    /\ WF_vars(WaitReturn)

Report == \E t \in Tasks : WorkerReport(t)

Progress ==
    \/ \E pid \in GarbagePids, c \in CookieValues : ProgressCall(pid, c)
    \/ ProgressCopy
    \/ ProgressReturn

\* one task whose request reports its progress while the controller reads it
NextProgress ==
    \/ WorkerRun
    \/ Report
    \/ LaunchWith(MaxTasks, SeqScripts, {"launch_v2"})
    \/ Progress

SpecProgress == Init /\ [][NextProgress]_vars


\* one task and every operation on it, get_progress_v2 included, called
\* with every pid and cookie by either user
NextCalls ==
    \/ WorkerStep
    \/ Report
    \/ LaunchWith(MaxTasks, SeqScripts, {"launch_v2"})
    \/ Result
    \/ Detach
    \/ Cancel
    \/ Wait
    \/ Progress
    \/ Rejected
    \/ \E u \in Users : SetUser(u)

SpecCalls == Init /\ [][NextCalls]_vars

(***************************************************************************)
(* Properties                                                              *)
(***************************************************************************)
IsPrefix(a, b) == Len(a) <= Len(b) /\ SubSeq(b, 1, Len(a)) = a
\* the frames result has taken off the queue (without the rows it made up
\* from command tags)
DecodedFrames(t) == SelectSeq(hist[t].decoded, LAMBDA f : f.tag # "row")
ResultOps == {"result", "result_v2"}
\* the caller has the privileges of the principal that launched task t
OwnerPrivileged(t) == has_privs_of_role(curUser, task[t].owner)

\* C1 (amended): a result stream is opened at most once per task.  After it
\* was opened, a further result call on the task's (pid, cookie), made with
\* the privileges of the task's owner, fails with AlreadyConsumed as long as
\* the task's entry exists (the first call is still draining); once the
\* entry is gone (the first call has finished) it fails with NotFound,
\* unless a later task has been entered under the pid.
C1_ResultAtMostOnce ==
    \A t \in Tasks :
       /\ hist[t].opened <= 1
       /\ (hist[t].opened = 1 /\ OwnerPrivileged(t)) =>
            \A op \in ResultOps :
               LET pid == hist[t].handle.pid
                   out == OpCheck(op, pid, hist[t].handle.cookie)
               IN  IF InfoPids(t) # {} THEN out = ErrConsumed
                   ELSE \/ out = ErrNotAttached
                        \/ find_worker_info(worker_hash, pid) # NULL

\* C1 witness: a stream is open and half drained, a second call would be
\* refused with AlreadyConsumed
C1_SecondCallWhileDraining ==
    \E t \in Tasks :
       /\ ctl = Idle
       /\ stream[t].open
       /\ hist[t].opened = 1
       /\ hist[t].decoded # <<>>
       /\ OwnerPrivileged(t)
       /\ ResultCheck(hist[t].handle.pid) = ErrConsumed

\* C1 as stated: once a task's stream was opened, every further result call
\* on its TaskId (by a caller entitled to it) fails with AlreadyConsumed,
\* also after the first finished
C1_SecondCallAlreadyConsumed ==
    \A t \in Tasks :
       (hist[t].opened >= 1 /\ OwnerPrivileged(t)) =>
         ResultCheck(hist[t].handle.pid).kind = "AlreadyConsumed"

\* C2 as stated: for every v2 operation, a call (by a caller with the
\* owner's privileges) on a registered pid with a wrong cookie has the same
\* outcome as the same call on a pid that is not registered
C2_MismatchLikeUnknown ==
    \A op \in V2Ops, pid \in GarbagePids, other \in GarbagePids,
       c \in CookieValues :
       (/\ find_worker_info(worker_hash, pid) # NULL
        /\ OwnerPrivileged(worker_hash.tab[pid].task)
        /\ worker_hash.tab[pid].cookie # c
        /\ find_worker_info(worker_hash, other) = NULL)
       => V2Check(op, pid, c) = V2Check(op, other, c)

\* C3 as stated: a launch that has returned a (pid, cookie) was preceded by
\* the worker attaching to the queue as sender
C3_AttachBeforeReturn ==
    \A t \in Tasks : hist[t].handle # NULL => seg[t].sender # "none"

\* C4: the frames result has decoded are a prefix of the frames the worker
\* sent, in send order; while the controller is attached, the decoded frames
\* followed by the queue are exactly the frames sent; when Ready has been
\* decoded, decoded and sent are equal
C4_FramesInOrder ==
    \A t \in Tasks :
       /\ IsPrefix(DecodedFrames(t), hist[t].sent)
       /\ seg[t].attached => DecodedFrames(t) \o seg[t].q = hist[t].sent
       /\ stream[t].complete \/ hist[t].outcome = "done" =>
            DecodedFrames(t) = hist[t].sent

\* C4 witness: a request of four frames and Ready went through a queue of
\* two and was decoded to the end
C4_AllDelivered ==
    \E t \in Tasks :
       /\ hist[t].outcome = "done"
       /\ Len(hist[t].sent) = 5
       /\ Len(hist[t].sent) > seg[t].cap

\* C5: when the receive loop ends on a detached queue before Ready was
\* decoded, the call fails with ConnectionLost whatever was decoded before,
\* and what was decoded (the rows returned) stays as it was
C5_PeerGoneIsConnectionLost ==
    [][(ResultEnd /\ ~stream[ctl.t].complete) =>
         /\ hist'[ctl.t].outcome = "ConnectionLost"
         /\ hist'[ctl.t].decoded = hist[ctl.t].decoded]_vars

\* C5 witness: a stream that returned a row ended with ConnectionLost
C5_LostAfterRows ==
    \E t \in Tasks :
       /\ hist[t].outcome = "ConnectionLost"
       /\ \E i \in 1..Len(hist[t].decoded) : hist[t].decoded[i].tag = "D"

\* C6 as stated: a timed wait with the longest timeout on a task that was
\* canceled never returns false
C6_CancelThenWaitSeesExit ==
    [][(WaitTimedOut /\ ctl.arg = PGBG_TIMEOUT_MS_MAX) =>
         ~worker_hash.tab[ctl.pid].canceled]_vars

\* a step of detach or detach_v2
DetachStep ==
    \E op \in {"detach", "detach_v2"}, pid \in GarbagePids,
       c \in CookieValues : DetachCall(op, pid, c)

\* C7: a detach leaves every worker process as it is (no signal), leaves
\* every cancel-requested flag and every canceled flag as it is, and counts
\* the task as canceled only if it was canceled before
C7_DetachNeverCancels ==
    [][DetachStep =>
         /\ worker' = worker
         /\ \A t \in Tasks :
              seg'[t].cancel_requested = seg[t].cancel_requested
         /\ \A pid \in DOMAIN worker_hash.tab :
              pid \in DOMAIN worker_hash'.tab =>
                worker_hash'.tab[pid].canceled = worker_hash.tab[pid].canceled
         /\ session_stats'.workers_canceled # session_stats.workers_canceled
              => \E pid \in DOMAIN worker_hash.tab :
                    worker_hash.tab[pid].canceled]_vars

\* C7 witness: a task was detached (nothing else took its segment away) and
\* its worker is running, not canceled and not signalled
C7_DetachedStillRunning ==
    \E t \in Tasks :
       /\ hist[t].opened = 0
       /\ ~seg[t].attached
       /\ InfoPids(t) = {}
       /\ worker[t].pc = "running"
       /\ ~worker[t].die
       /\ seg[t].cancel_requested = 0

\* C8 as stated: a cancel on a task whose worker has exited changes
\* nothing: no process is signalled, no flag of the entry changes
C8_CancelFinishedIsNoop ==
    [][\A op \in {"cancel_v2", "cancel_v2_grace"}, pid \in GarbagePids,
          c \in CookieValues, g \in GraceInputs :
          (/\ CancelCall(op, pid, c, g)
           /\ worker[worker_hash.tab[pid].task].pc = "exited")
          => worker_hash' = worker_hash /\ worker' = worker /\ seg' = seg]_vars

\* C9 as stated: no two launches of a session have returned the same
\* (pid, cookie)
C9_HandlesUnique ==
    \A t \in Tasks, u \in Tasks :
       t # u /\ hist[t].handle # NULL /\ hist[u].handle # NULL =>
         hist[t].handle # hist[u].handle

\* C10: the cookie of a task started with launch_v2 or submit_v2 is not
\* zero, whatever the random source and the fallback's inputs were; the
\* cookie of a task started with launch is zero
C10_CookieNeverZero ==
    /\ \A r \in RandomOutcomes, f \in FallbackInputs :
          pg_background_make_cookie(r, f) # Zero64
    /\ \A t \in Tasks :
          IF task[t].api = "launch" THEN task[t].cookie = Zero64
          ELSE task[t].cookie # Zero64 /\ seg[t].cookie = task[t].cookie

\* C10 witness: a v2 task whose cookie is the replacement for a zero (the
\* random source returned zero, or failed and the fallback came out zero)
C10_ZeroReplaced ==
    \E t \in Tasks :
       /\ task[t].api # "launch"
       /\ task[t].cookie = GoldenCookie
       /\ hist[t].handle # NULL
       /\ GoldenCookie \notin {r.val : r \in RandomOutcomes}
       /\ \E f \in FallbackInputs : FallbackCookie(f) = Zero64

\* a call on pid that has passed its checks and acts
CallStep(pid) ==
    \/ \E op \in ResultOps, c \in CookieValues, n \in ExpectedNatts :
          ResultFirstCall(op, pid, c, n)
    \/ \E op \in {"detach", "detach_v2"}, c \in CookieValues :
          DetachCall(op, pid, c)
    \/ \E op \in {"cancel_v2", "cancel_v2_grace"}, c \in CookieValues,
          g \in GraceInputs : CancelCall(op, pid, c, g)
    \/ \E op \in {"wait_v2", "wait_v2_timeout"}, c \in CookieValues,
          tm \in TimeoutInputs : WaitCall(op, pid, c, tm)

\* the caller has the privileges of the principal that launched the task
\* registered under pid
CallerPrivileged(pid) == OwnerPrivileged(worker_hash.tab[pid].task)

\* C11: for every operation, whatever the cookie, a call on a registered
\* pid by a caller without the privileges of the task's owner fails with
\* PermissionDenied; and every call that acts on a task (opens its result
\* stream, detaches it, cancels it, waits for it) is made by a caller that
\* has them, so nothing is changed and no signal is sent without the check
C11_RightsCheckedFirst ==
    [][/\ \A op \in AllOps, pid \in GarbagePids, c \in CookieValues :
             (find_worker_info(worker_hash, pid) # NULL
              /\ ~CallerPrivileged(pid))
             => OpCheck(op, pid, c) = ErrPermission
       /\ \A pid \in GarbagePids : CallStep(pid) => CallerPrivileged(pid)
      ]_vars

\* C11 witness: a caller without the owner's privileges faces a registered
\* task whose worker is running; its cancel is refused
C11_DeniedCaller ==
    \E pid \in GarbagePids :
       /\ find_worker_info(worker_hash, pid) # NULL
       /\ ~CallerPrivileged(pid)
       /\ worker[worker_hash.tab[pid].task].pc = "running"
       /\ OpCheck("cancel_v2", pid, worker_hash.tab[pid].cookie)
            = ErrPermission

\* C12: every row a call of list returns is the entry of a task whose
\* owner's privileges the caller has at that call, whatever the table
\* holds, in whatever order it was walked, and whatever was launched,
\* detached or switched since the first call of the enumeration
C12_ListShowsOnlyOwn ==
    [][(list' # list /\ list'.row # NULL) =>
         /\ find_worker_info(worker_hash, list'.row.pid) # NULL
         /\ CallerPrivileged(list'.row.pid)
         /\ list'.row.user_id = task[worker_hash.tab[list'.row.pid].task].owner
      ]_vars

\* C12 witness: an enumeration has returned a row and has passed over the
\* registered task of an owner whose privileges the caller lacks
C12_HiddenRowSkipped ==
    /\ list.open
    /\ list.pids = <<>>
    /\ \E pid \in GarbagePids :
          /\ find_worker_info(worker_hash, pid) # NULL
          /\ ~CallerPrivileged(pid)
          /\ list.row.pid # pid
          /\ list.row.user_id = curUser

\* C13: no result stream is ever opened on a task started with submit_v2
\* and nothing is decoded from its queue; while the task is registered its
\* entry has result retrieval disabled and is not consumed, and a result
\* call, or a result_v2 call with the task's cookie, by a caller with the
\* owner's privileges fails with FeatureDisabled
C13_SubmitNeverYieldsResult ==
    /\ \A t \in Tasks :
          task[t].api = "submit_v2" =>
            /\ hist[t].opened = 0
            /\ hist[t].decoded = <<>>
            /\ ~stream[t].open
    /\ \A pid \in GarbagePids :
          LET info == find_worker_info(worker_hash, pid)
          IN  (info # NULL /\ task[info.task].api = "submit_v2") =>
                /\ info.result_disabled
                /\ ~info.consumed
                /\ CallerPrivileged(pid) =>
                     /\ OpCheck("result", pid, Zero64) = ErrDisabled
                     /\ OpCheck("result_v2", pid, info.cookie) = ErrDisabled

\* C13 witness: a registered submit_v2 task whose worker has put frames on
\* the queue; the owner's result call is refused
C13_SubmitHasOutput ==
    \E pid \in GarbagePids :
       /\ find_worker_info(worker_hash, pid) # NULL
       /\ task[worker_hash.tab[pid].task].api = "submit_v2"
       /\ seg[worker_hash.tab[pid].task].q # <<>>
       /\ CallerPrivileged(pid)
       /\ ResultCheck(pid) = ErrDisabled

\* the rows result has made up from command tags, in the order returned
SyntheticRows(t) == SelectSeq(hist[t].decoded, LAMBDA f : f.tag = "row")
\* the CommandDone frames the worker has sent
TagsSent(t) == SelectSeq(hist[t].sent, LAMBDA f : f.tag = "C")

\* C14: for a task whose worker has sent exactly one CommandDone frame and
\* then Ready, result never returns a row other than the one made from that
\* frame's tag, never returns it twice, and when the stream has come to its
\* end it has returned exactly that one row
C14_SingleTagRow ==
    \A t \in Tasks :
       (/\ Len(hist[t].sent) = 2
        /\ hist[t].sent[1].tag = "C"
        /\ hist[t].sent[2] = FrameZ)
       => LET row == Frame("row", 1, hist[t].sent[1].v)
          IN  /\ SyntheticRows(t) \in {<<>>, <<row>>}
              /\ hist[t].outcome = "done" =>
                   hist[t].decoded = <<hist[t].sent[1], FrameZ, row>>

\* C14 witness: the stream of a task that sent CommandDone("UPDATE 3") and
\* Ready has ended after the row "UPDATE 3"
C14_UpdateTagDelivered ==
    \E t \in Tasks :
       /\ hist[t].sent = <<FrameC("UPDATE 3"), FrameZ>>
       /\ hist[t].outcome = "done"
       /\ SyntheticRows(t) = <<Frame("row", 1, "UPDATE 3")>>

\* C15 as stated: a stream without a Schema frame that has come to its end
\* has returned exactly one made-up row, and that row carries the tag of the
\* last CommandDone frame, however many CommandDone frames were sent
C15_OneRowFromLastTag ==
    \A t \in Tasks :
       (/\ hist[t].outcome = "done"
        /\ TagsSent(t) # <<>>
        /\ \A i \in 1..Len(hist[t].sent) : hist[t].sent[i].tag # "T")
       => SyntheticRows(t) =
            <<Frame("row", 1, TagsSent(t)[Len(TagsSent(t))].v)>>

\* the frame the receive loop is about to decode
NextFrame == ReceiveFrame(seg[ctl.t])
\* the Schema frames decoded so far
SchemasDecoded(t) == SelectSeq(hist[t].decoded, LAMBDA f : f.tag = "T")

\* C16: a Row frame that was decoded with no Schema frame decoded before it
\* is the last frame decoded on its stream: the call failed on it with
\* ProtocolViolation, the stream is closed, no row was returned for it
C16_RowNeedsSchema ==
    \A t \in Tasks :
       \A i \in 1..Len(hist[t].decoded) :
          (/\ hist[t].decoded[i].tag = "D"
           /\ \A j \in 1..(i - 1) : hist[t].decoded[j].tag # "T")
          => /\ i = Len(hist[t].decoded)
             /\ hist[t].outcome = "ProtocolViolation"
             /\ ~stream[t].open

\* C16 witness: the first frame of a stream was a Row frame and the stream
\* ended on it
C16_RowFirstRefused ==
    \E t \in Tasks :
       /\ hist[t].decoded = <<FrameD(1, "a")>>
       /\ hist[t].outcome = "ProtocolViolation"
       /\ hist[t].sent # hist[t].decoded

\* C17: decoding a Row frame whose column count differs from the count of
\* the Schema frame decoded before it fails with ProtocolViolation and
\* closes the stream; decoding a Schema frame whose column count differs
\* from the caller's expected shape (the first Schema frame, hence before
\* any Row frame is accepted) fails and closes the stream
C17_ColumnCountsMustAgree ==
    [][/\ (/\ ResultFrame
           /\ NextFrame.tag = "D"
           /\ SchemasDecoded(ctl.t) # <<>>
           /\ NextFrame.n # SchemasDecoded(ctl.t)[1].n)
          => /\ hist'[ctl.t].outcome = "ProtocolViolation"
             /\ ~stream'[ctl.t].open
       /\ (/\ ResultFrame
           /\ NextFrame.tag = "T"
           /\ NextFrame.n # stream[ctl.t].natts)
          => /\ hist'[ctl.t].outcome \in
                  {"DatatypeMismatch", "ProtocolViolation"}
             /\ ~stream'[ctl.t].open
             /\ \A i \in 1..Len(hist[ctl.t].decoded) :
                   hist[ctl.t].decoded[i].tag # "D"
      ]_vars

\* C17 witness: a stream returned a one-column row and ended on a Row frame
\* of two columns
C17_WideRowRefused ==
    \E t \in Tasks :
       /\ hist[t].decoded = <<FrameT(1), FrameD(1, "a"), FrameD(2, "b")>>
       /\ hist[t].outcome = "ProtocolViolation"
       /\ ~stream[t].open

\* C18: with the setting unchanged during the session, the table never
\* holds more entries than max_workers; while it holds max_workers entries
\* no launch, launch_v2 or submit_v2 passes its checks, whatever the queue
\* size asked for, and one with an acceptable queue size fails with
\* ResourceExhausted
C18_AdmissionLimit ==
    /\ hash_get_num_entries(worker_hash) <= max_workers
    /\ hash_get_num_entries(worker_hash) >= max_workers =>
         \A qs \in QueueSizes :
            /\ LaunchCheck(qs) # "ok"
            /\ (/\ EffectiveQueueSize(qs) >= shm_mq_minimum_size
                /\ EffectiveQueueSize(qs) <= PGBG_QUEUE_SIZE_MAX)
               => LaunchCheck(qs) = "ResourceExhausted"

\* C18 witness: the table is full of tasks whose workers have exited and a
\* further launch is refused although a worker slot is free
C18_FullOfFinishedTasks ==
    /\ worker_hash.live
    /\ hash_get_num_entries(worker_hash) = max_workers
    /\ \A pid \in DOMAIN worker_hash.tab :
          worker[worker_hash.tab[pid].task].pc = "exited"
    /\ ntasks < MaxSeqTasks
    /\ CanRegister
    /\ LaunchCheck(pgbg_default_queue_size) = "ResourceExhausted"

\* C19: in every step, an entry leaves the table (or gives its place to the
\* entry of another task) only together with the detach of its own task's
\* segment, on which the callback for its pid was registered; the detach of
\* a task's segment leaves the entries of all other tasks in place; a task
\* has at most one entry, and once its entry was removed it has none again
C19_RemovedOnlyByOwnCallback ==
    [][/\ \A pid \in GarbagePids :
             LET old == find_worker_info(worker_hash, pid)
                 new == find_worker_info(worker_hash', pid)
             IN  (old # NULL /\ (new = NULL \/ new.task # old.task)) =>
                   /\ seg[old.task].attached
                   /\ seg[old.task].cb_pid = pid
                   /\ ~seg'[old.task].attached
       /\ \A t \in Tasks :
             /\ (seg[t].attached /\ ~seg'[t].attached) =>
                  \A pid \in GarbagePids :
                     LET old == find_worker_info(worker_hash, pid)
                         new == find_worker_info(worker_hash', pid)
                     IN  (old # NULL /\ old.task # t) =>
                           (new # NULL /\ new.task = old.task)
             /\ (hist[t].handle # NULL /\ InfoPids(t) = {}) =>
                  InfoPids(t)' = {}
             /\ Cardinality(InfoPids(t)') <= 1
      ]_vars

\* C19 witness: a task is registered under the pid an earlier task had; the
\* earlier task's entry is gone and its segment detached, the later task's
\* entry is in place
C19_ReusedPidKept ==
    \E t \in Tasks, u \in Tasks :
       /\ t < u
       /\ hist[t].handle # NULL
       /\ hist[u].handle # NULL
       /\ hist[t].handle.pid = hist[u].handle.pid
       /\ worker[u].pid = hist[u].handle.pid
       /\ ~seg[t].attached
       /\ InfoPids(t) = {}
       /\ InfoPids(u) = {hist[u].handle.pid}

\* C20 as stated: once a cancel call has returned and the worker has
\* exited, the task has no entry in the table
C20_CanceledTaskGone ==
    \A pid \in GarbagePids :
       LET info == find_worker_info(worker_hash, pid)
       IN  ~(/\ info # NULL
             /\ info.canceled
             /\ ctl = Idle
             /\ worker[info.task].pc = "exited")

\* the percentage the k-th pg_background_progress call publishes
PublishedPct(k) == ClampPct(ProgressArg(k))

\* C21: whenever get_progress_v2 returns the percentage published by the
\* k-th report, every byte of the message it returns was stored by the
\* k-th report or a later one, never by an earlier report or by the launch
C21_MessageNotOlder ==
    [][ProgressReturn =>
         \A k \in 1..MaxReports :
            progress.pct = PublishedPct(k) =>
              \A i \in MsgCells : progress.msg[i] >= k]_vars

\* C21 witness: the worker reported twice; a read has taken the second
\* report's percentage and copied the second report's message
C21_SecondReportRead ==
    /\ ctl.op = "get_progress"
    /\ progress.pct = PublishedPct(2)
    /\ progress.msg = [i \in MsgCells |-> 2]

\* C22 as stated: whenever get_progress_v2 returns the percentage published
\* by the k-th report, no byte of the message it returns was stored by a
\* later report
C22_MessageNotNewer ==
    [][ProgressReturn =>
         \A k \in 1..MaxReports :
            progress.pct = PublishedPct(k) =>
              \A i \in MsgCells : progress.msg[i] <= k]_vars

\* a queue_size argument that names a size (is positive) outside the limits
OutOfRange(qs) ==
    (0 < qs /\ qs < shm_mq_minimum_size) \/ qs > PGBG_QUEUE_SIZE_MAX

\* a step in which launch, launch_v2 or submit_v2, called with queue_size
\* qs, creates the segment and queue and registers the worker
LaunchBeginWith(qs) ==
    \E api \in LaunchApis, sc \in Scripts, r \in RandomOutcomes,
       f \in FallbackInputs : LaunchBegin(api, qs, sc, r, f)

\* C23 (amended): a launch, launch_v2 or submit_v2 whose queue_size is
\* positive and below shm_mq_minimum_size, or above PGBG_QUEUE_SIZE_MAX,
\* fails its checks with InvalidArgument whatever the registry holds, and no
\* step creates a segment, a queue or a worker for such a queue_size; a
\* queue_size of zero or less stands for the default size and is accepted
C23_InvalidQueueRejected ==
    [][\A qs \in QueueSizes :
          /\ OutOfRange(qs) =>
                LaunchCheck(qs) = "InvalidArgument" /\ ~LaunchBeginWith(qs)
          /\ (qs <= 0 /\ LaunchBeginWith(qs)) =>
                task'[ntasks'].queue_size = pgbg_default_queue_size
      ]_vars

\* C23 witness: one task is registered and a worker slot is free; a further
\* launch is refused for a queue_size under the minimum and for one over
\* the maximum, and would be let through for the default size
C23_OnlyTheSizeRefused ==
    /\ ctl = Idle
    /\ ntasks = 1
    /\ worker_hash.live
    /\ CanRegister
    /\ LaunchCheck(shm_mq_minimum_size - 1) = "InvalidArgument"
    /\ LaunchCheck(PGBG_QUEUE_SIZE_MAX + 1) = "InvalidArgument"
    /\ LaunchCheck(pgbg_default_queue_size) = "ok"

\* C23 as stated: no launch, launch_v2 or submit_v2 creates anything for a
\* queue_size below shm_mq_minimum_size (zero and negative values
\* included) or above PGBG_QUEUE_SIZE_MAX
C23_BelowFloorRejected ==
    [][\A qs \in QueueSizes :
          (qs < shm_mq_minimum_size \/ qs > PGBG_QUEUE_SIZE_MAX)
          => ~LaunchBeginWith(qs)]_vars

\* C24 as stated: a launch, launch_v2 or submit_v2 of an empty request
\* fails: no segment is created and no worker registered for it, and no
\* registry entry stands for it
C24_EmptyRequestRejected ==
    /\ \A t \in Tasks : task[t].script # EmptyRequest
    /\ \A pid \in DOMAIN worker_hash.tab :
          task[worker_hash.tab[pid].task].script # EmptyRequest

\* C25: no step of wait_v2 or wait_v2_timeout (the call, its polls, its
\* return) changes the registry (membership, consumed and canceled flags),
\* a segment or its queue, a result stream, a worker or the statistics; and
\* when a wait returns on a stopped worker whose entry is not consumed, the
\* queue still holds every frame the worker sent, so that a later result
\* call has the whole stream to decode
C25_WaitConsumesNothing ==
    [][/\ Wait =>
            /\ worker_hash' = worker_hash
            /\ seg' = seg
            /\ stream' = stream
            /\ hist' = hist
            /\ worker' = worker
            /\ session_stats' = session_stats
       /\ (WaitReturn \/ WaitPollStopped) =>
            LET info == find_worker_info(worker_hash', ctl.pid)
            IN  /\ info # NULL
                /\ info.task = ctl.t
                /\ ~info.consumed => seg'[ctl.t].q = hist'[ctl.t].sent
      ]_vars

\* C25 witness: a wait is about to return on a stopped worker while the
\* queue holds the worker's frames, none of them decoded
C25_WaitedWithFramesBuffered ==
    /\ ctl.op \in {"wait_v2", "wait_v2_timeout"}
    /\ worker[ctl.t].pc = "exited"
    /\ ~worker_hash.tab[ctl.pid].consumed
    /\ Len(seg[ctl.t].q) = 2
    /\ seg[ctl.t].q = hist[ctl.t].sent
    /\ hist[ctl.t].decoded = <<>>

\* the timeout a timed wait called with timeout_ms polls against
WaitLimit(timeout_ms) ==
    IF timeout_ms <= 0 THEN 0
    ELSE IF timeout_ms >= PGBG_TIMEOUT_MS_MAX THEN PGBG_TIMEOUT_MS_MAX
    ELSE timeout_ms

\* C26: wait_v2_timeout polls against its timeout brought into
\* 0 .. PGBG_TIMEOUT_MS_MAX; it returns true only at a poll that finds the
\* worker stopped, and false only at a poll that finds it not stopped with
\* the elapsed time at or over the timeout; it sleeps between two polls
\* only under a positive timeout, so with timeout_ms <= 0 the first poll
\* returns
C26_TimedWaitOutcome ==
    [][/\ \A pid \in GarbagePids, c \in CookieValues, tm \in TimeoutInputs :
             WaitCall("wait_v2_timeout", pid, c, tm) =>
               ctl'.arg = WaitLimit(tm) /\ ctl'.op = "wait_v2_timeout"
       /\ WaitPollStopped => worker[ctl.t].pc = "exited"
       /\ WaitTimedOut =>
            /\ worker[ctl.t].pc # "exited"
            /\ \E e \in ElapsedValues(PGBG_TIMEOUT_MS_MAX) : e >= ctl.arg
       /\ (ctl.op = "wait_v2_timeout" /\ ctl' = Idle) =>
            WaitPollStopped \/ WaitTimedOut
       /\ (ctl.op = "wait_v2_timeout" /\ ctl.arg <= 0) =>
            ctl' = ctl \/ ctl' = Idle
      ]_vars

\* C26 witness: a timed wait called with a timeout of zero or less is at
\* its first poll and the worker is running
C26_ZeroTimeoutOnRunningWorker ==
    /\ ctl.op = "wait_v2_timeout"
    /\ ctl.arg = 0
    /\ worker[ctl.t].pc = "running"

\* the entries of the table that stand for task u
EntriesOf(H, u) ==
    IF H.live THEN {p \in DOMAIN H.tab : H.tab[p].task = u} ELSE {}

\* a step of the receive loop that ends the stream of ctl.t with a lost
\* connection or a protocol violation
DrainFails ==
    /\ ResultFrame \/ ResultEnd
    /\ hist[ctl.t].outcome = "open"
    /\ hist'[ctl.t].outcome \in {"ConnectionLost", "ProtocolViolation"}

\* C27: a result call that fails with ConnectionLost or ProtocolViolation
\* closes the stream of its task, detaches that task's segment and removes
\* that task's entry; the session goes on (the call returns to the idle
\* controller); the segment, queue, stream, worker and entry (cookie,
\* flags) of every other task are as they were
C27_FailureStaysInTask ==
    [][DrainFails =>
         /\ ~stream'[ctl.t].open
         /\ ~seg'[ctl.t].attached
         /\ EntriesOf(worker_hash', ctl.t) = {}
         /\ ctl' = Idle
         /\ \A u \in Tasks \ {ctl.t} :
               /\ seg'[u] = seg[u]
               /\ stream'[u] = stream[u]
               /\ worker'[u] = worker[u]
               /\ EntriesOf(worker_hash', u) = EntriesOf(worker_hash, u)
               /\ \A p \in EntriesOf(worker_hash, u) :
                     worker_hash'.tab[p] = worker_hash.tab[p]
      ]_vars

\* C27 witness: the stream of one task has ended on a protocol violation
\* and its entry is gone, while another task is registered, its queue
\* holding a frame
C27_OtherTaskKept ==
    \E t \in Tasks, u \in Tasks :
       /\ t # u
       /\ hist[t].outcome = "ProtocolViolation"
       /\ EntriesOf(worker_hash, t) = {}
       /\ EntriesOf(worker_hash, u) # {}
       /\ seg[u].attached
       /\ seg[u].q # <<>>
       /\ ctl = Idle

\* the workers a step has set ProcDiePending in
Signalled == {t \in Tasks : worker'[t].die /\ ~worker[t].die}

\* C28: SIGTERM is sent only by a cancel that has passed its checks and
\* has set the cancel_requested flag of the task's segment before; SIGKILL
\* is sent only from the grace loop, which is entered only by the step
\* that sends SIGTERM; no step signals a worker of a task that is
\* registered with its flag unset
C28_FlagThenTermThenKill ==
    [][/\ CancelSigterm =>
            /\ seg[ctl.t].cancel_requested = 1
            /\ worker_hash.tab[ctl.pid].canceled
       /\ Signalled # {} => CancelSigterm
       /\ (ctl'.op = "cancel_grace"
           /\ ctl.op \notin {"cancel_grace", "cancel_sleep"}) => CancelSigterm
       /\ CancelEscalate =>
            /\ seg[ctl.t].cancel_requested = 1
            /\ worker' = AfterSigkill(worker, worker_hash.tab[ctl.pid].pid)
       /\ \A t \in Signalled : seg[t].cancel_requested = 1
      ]_vars

\* C28 witness: a cancel has set the flag and is about to send SIGTERM to a
\* running worker that no signal has reached
C28_FlagSetBeforeSigterm ==
    /\ ctl.op = "cancel_signal"
    /\ seg[ctl.t].cancel_requested = 1
    /\ worker[ctl.t].pc = "running"
    /\ ~worker[ctl.t].die

\* C29: SIGKILL is sent only at a poll of the grace loop that finds the
\* worker not stopped with the grace period over, and every grace loop
\* that ends on such a poll sends it; the loop is entered only by
\* cancel_v2_grace with a positive grace period (never by cancel_v2, never
\* with grace_ms <= 0); a poll that finds the worker stopped returns
\* without a signal
C29_EscalatesOnlyAfterGrace ==
    [][/\ \A op \in {"cancel_v2", "cancel_v2_grace"}, pid \in GarbagePids,
             c \in CookieValues, g \in GraceInputs :
             (CancelBegin(op, pid, c, g) /\ (op = "cancel_v2" \/ g <= 0))
             => ctl'.arg = 0
       /\ (CancelSigterm /\ ctl.arg <= 0) => ctl' = Idle
       /\ CancelEscalate =>
            /\ ctl.arg > 0
            /\ worker[ctl.t].pc # "exited"
       /\ CancelPollStopped => worker' = worker
       /\ (ctl.op = "cancel_grace" /\ ctl' = Idle) =>
            IF worker[ctl.t].pc = "exited" THEN worker' = worker
            ELSE worker'[ctl.t].pc = "exited"
      ]_vars

\* C29 witness: a grace loop has sent SIGKILL to a worker that SIGTERM had
\* not stopped: it was blocked sending into the full queue
C29_KilledAfterGrace ==
    \E t \in Tasks :
       /\ ctl = Idle
       /\ worker[t].pc = "exited"
       /\ seg[t].sender # "detached"
       /\ seg[t].cancel_requested = 1
       /\ Len(seg[t].q) = seg[t].cap

\* a cancel is under way
InCancel == ctl.op \in {"cancel_signal", "cancel_grace", "cancel_sleep"}

\* C30: the grace period the loop polls against is within
\* 1 .. PGBG_GRACE_MS_MAX whatever grace_ms was, and every cancel that has
\* passed its checks returns, whatever the worker does, also when it never
\* exits
C30_CancelReturns ==
    /\ [](ctl.op \in {"cancel_grace", "cancel_sleep"} =>
            ctl.arg \in 1..PGBG_GRACE_MS_MAX)
    /\ InCancel ~> ctl = Idle

\* C30 witness: the grace loop sleeps on a worker that cannot exit by
\* itself (it is blocked sending into the full queue)
C30_LoopOnBlockedWorker ==
    /\ ctl.op = "cancel_sleep"
    /\ ctl.arg = PGBG_GRACE_MS_MAX
    /\ worker[ctl.t].pc = "fatal"
    /\ ~CanSend(seg[ctl.t])

\* C31 (as stated): a result call that has decoded the Ready frame does not
\* wait for the worker: it is never found blocked on a channel that is empty
\* with the sender still attached.
C31_NoWaitAfterReady ==
    (ctl.op = "result" /\ stream[ctl.t].complete)
      => ReceiveReady(seg[ctl.t], worker[ctl.t])

\* C31 (amended): the result decoder reads frames until the channel yields
\* peer-gone.  A Ready frame only marks the stream complete: the call that
\* decoded it goes on receiving, reads no further frame (the worker sends
\* none after Ready) and ends only once the queue is empty and the worker
\* has detached or exited.
C31_ReadsUntilPeerGone ==
    [][\A t \in Tasks :
         stream[t].complete =>
           /\ DecodedFrames(t)' = DecodedFrames(t)
           /\ (ctl.op = "result" /\ ctl.t = t /\ ctl' # ctl) =>
                /\ seg[t].q = <<>>
                /\ seg[t].sender = "detached" \/ worker[t].pc = "exited"]_vars

\* a stream whose Ready frame was decoded has ended as complete
C31_CompletedAfterReady ==
    \E t \in Tasks :
       /\ hist[t].outcome = "done"
       /\ FrameZ = hist[t].decoded[Len(hist[t].decoded)]
       /\ ~stream[t].open

\* C32: a launch whose worker got the process id of an existing registry
\* entry of the same principal detaches the stale entry's channel and then
\* completes: the registry holds one entry for that process id, carrying
\* the new task's cookie, channel and flags -- whatever the registry size.
C32_StaleEntryReplaced ==
    [][\A p \in DOMAIN worker_hash.tab :
         (/\ ctl.op = "launch_attach"
          /\ ctl' # ctl
          /\ ctl.pid = p
          /\ worker[ctl.t].pid = p
          /\ worker_hash.tab[p].current_user_id = curUser)
           => /\ ctl' = Idle
              /\ ~seg'[worker_hash.tab[p].task].attached
              /\ worker_hash'.live
              /\ p \in DOMAIN worker_hash'.tab
              /\ worker_hash'.tab[p] = NewInfo(p, ctl.t)
              /\ seg'[ctl.t].attached
              /\ seg'[ctl.t].cb_pid = p]_vars

\* the worker of task t has not passed its pre-execution check and the
\* cancel flag of its segment is set
FlaggedBeforeStart(t) == seg[t].cancel_requested # 0 /\ worker[t].ip = 0

\* C33: when cancel has set the cancel-requested flag before the worker
\* reaches its pre-execution check, the worker never runs the request and
\* sends no Ready frame, however the steps of cancel and of the worker's
\* startup interleave; a result on that task returns no row and does not
\* end as a completed stream.
C33_CanceledBeforeStartNeverRuns ==
    /\ [][\A t \in Tasks :
            FlaggedBeforeStart(t)
              => FlaggedBeforeStart(t)' /\ worker'[t].pc # "running"]_vars
    /\ [](\A t \in Tasks :
            FlaggedBeforeStart(t) =>
              /\ \A i \in DOMAIN hist[t].sent :
                    hist[t].sent[i].tag \notin {"Z", "T", "D", "C"}
              /\ \A i \in DOMAIN hist[t].decoded :
                    hist[t].decoded[i].tag \notin {"Z", "D", "row"}
              /\ ~stream[t].complete
              /\ hist[t].outcome \in
                   {"none", "open", "ConnectionLost", "RemoteError"})

\* the worker found the flag set at its check and left without a frame; the
\* result called afterwards has failed with a lost connection
C33_QuietExitThenResultFails ==
    \E t \in Tasks :
       /\ FlaggedBeforeStart(t)
       /\ worker[t].pc = "exited"
       /\ seg[t].sender = "detached"
       /\ hist[t].sent = <<>>
       /\ hist[t].outcome = "ConnectionLost"

\* the worker of task t got as far as ReadyForQuery
WorkerCompleted(t) ==
    \E i \in DOMAIN hist[t].sent : hist[t].sent[i].tag = "Z"
\* the worker of task t ended with an error report
WorkerFailed(t) ==
    \E i \in DOMAIN hist[t].sent : hist[t].sent[i].tag = "E"

\* C34: a task that is cleaned up is counted under the outcome that
\* happened: workers_canceled if it was canceled, workers_failed only if the
\* worker failed with an error, workers_completed only if the worker
\* completed successfully.
C34_CountedAsItEnded ==
    [][\A t \in Tasks :
         (InfoPids(t) # {} /\ InfoPids(t)' = {}) =>
           LET info == worker_hash.tab[InfoPid(t)]
               S == session_stats
           IN  /\ info.canceled =>
                    session_stats' = [S EXCEPT !.workers_canceled = @ + 1]
               /\ session_stats'.workers_failed # S.workers_failed
                    => WorkerFailed(t)
               /\ session_stats'.workers_completed # S.workers_completed
                    => WorkerCompleted(t)]_vars

\* C35: between operations workers_launched = workers_completed +
\* workers_failed + workers_canceled + the number of registry entries: a
\* successful launch adds one to launched and one entry, a removal adds one
\* to exactly one outcome counter.
C35_CountersBalance ==
    ctl = Idle =>
      session_stats.workers_launched =
        session_stats.workers_completed + session_stats.workers_failed
          + session_stats.workers_canceled
          + hash_get_num_entries(worker_hash)

\* two launches so far: one task was canceled and then removed, the other
\* is still registered
C35_OneCanceledOneRegistered ==
    /\ ctl = Idle
    /\ session_stats.workers_launched = 2
    /\ session_stats.workers_canceled = 1
    /\ hash_get_num_entries(worker_hash) = 1

\* C36: an untimed wait_v2 on a task whose request emits finitely many
\* frames eventually returns, although wait drains nothing: also for tasks
\* started with submit_v2 and for tasks whose output exceeds the queue.
C36_UntimedWaitReturns == (ctl.op = "wait_v2") ~> (ctl = Idle)

\* C37: no operation reads or writes a task's registry entry, or uses the
\* registry, after the cleanup callback run by the operation's own
\* dsm_detach has removed the entry (and destroyed an emptied registry):
\* detach, detach_v2, the end of result, and a launch that registers a
\* process id already in the registry.
C37_NoAccessAfterRemoval ==
    \A t \in Tasks : hist[t].late \in {"none", "entry"}

\* the lookup, the rights check and (v2) the cookie comparison all accept
\* the call op(pid, c)
Accepted(op, pid, c) ==
    /\ worker_hash.live
    /\ pid \in DOMAIN worker_hash.tab
    /\ has_privs_of_role(curUser, worker_hash.tab[pid].current_user_id)
    /\ op \in V2Ops => worker_hash.tab[pid].cookie = c

TornDownByCall(t) ==
    /\ seg[t].attached
    /\ ~seg'[t].attached
    /\ ctl.op \in {"idle", "result"}

\* C40: once a task's channel was torn down by a detach or by result
\* reaching the end of the stream, the task is unknown: the step removes
\* the entry of its pid; an entry for a pid appears only in the step of a
\* launch that registers that pid; on a pid without entry result, detach,
\* cancel and wait, with any cookie or none, fail with NotFound and
\* get_progress_v2 returns null, and list returns no row for it; and no
\* frame or row of a task is obtained once its segment is detached
C40_TornDownIsUnknown ==
    /\ [][\A t \in Tasks, p \in GarbagePids :
            (TornDownByCall(t) /\ seg[t].cb_pid = p)
            => find_worker_info(worker_hash, p)' = NULL]_vars
    /\ [][\A p \in GarbagePids :
            (/\ find_worker_info(worker_hash, p) = NULL
             /\ find_worker_info(worker_hash, p)' # NULL)
            => ctl.op = "launch_attach" /\ ctl.pid = p]_vars
    /\ [](\A p \in GarbagePids :
            find_worker_info(worker_hash, p) = NULL
            => \A op \in AllOps, c \in CookieValues :
                  OpCheck(op, p, c) =
                     IF op = "get_progress_v2" THEN ReturnsNull
                     ELSE ErrNotAttached)
    /\ [][(list' # list /\ list'.row # NULL)
            => find_worker_info(worker_hash, list'.row.pid) # NULL]_vars
    /\ [][\A t \in Tasks :
            ~seg[t].attached => hist'[t].decoded = hist[t].decoded]_vars

\* C40 witness: a task whose result was read to the end, rows included, is
\* torn down; a later task is registered under another pid; every call on
\* the first task's pid is answered as for an unknown task
C40_ConsumedTaskUnknown ==
    \E t \in Tasks :
       /\ hist[t].outcome = "done"
       /\ hist[t].decoded # <<>>
       /\ ~seg[t].attached
       /\ ctl = Idle
       /\ worker_hash.live
       /\ find_worker_info(worker_hash, worker[t].pid) = NULL
       /\ \A c \in CookieValues :
             /\ OpCheck("result", worker[t].pid, c) = ErrNotAttached
             /\ OpCheck("wait_v2", worker[t].pid, c) = ErrNotAttached

=============================================================================
